---- MODULE Spec2Model ----
(***************************************************************************)
(* Task supervision core of libcore/task.rs: taskgroups, ancestor lists,   *)
(* enlistment, TCB teardown, kill propagation and the exit notifier; the   *)
(* task builder; task-local data; the guards unkillable, rekillable and    *)
(* atomically; the locks of taskgroups and ancestor nodes.                 *)
(*                                                                         *)
(* Granularity.  Every access_group critical section is one atomic step.   *)
(* A walk of each_ancestor takes one step per visited node (taking the     *)
(* node's lock and running forward_blk under the parent group's lock) and  *)
(* one step per bail_blk call.  Releasing node locks and writing the list  *)
(* pointers they protect are done in the step that precedes them: they     *)
(* touch only data protected by locks the walker holds.                    *)
(***************************************************************************)
EXTENDS Integers, Sequences, FiniteSets, TLC

\* Number of tasks that can exist in one execution, the main task included.
MaxTasks == 4

\* Number of tasks that can exist in an execution in which spawns use every
\* combination of options, and try.
MaxOptTasks == 3

\* The first task of an execution.  It is either the main task, which has no
\* TCB in its TLS until its first spawn, or a task that the main task spawned
\* unlinked (as the test runner does for every test) while the main task
\* itself does nothing else: then it starts with its TCB and its own group.
Root == 0

\* AncestorList(None): the empty ancestor list.
NoNode == 0

Tasks == 0 .. (MaxTasks - 1)

\* A taskgroup is created for a task spawned unlinked and is named after it;
\* the first task's group is named after the first task.  The ancestor node
\* created for a task spawned supervised is named after that task.
Groups == Tasks

VARIABLES
    pc,         \* position of each task in spawn wrapper / body / teardown
    opts,       \* TaskOpts the task was spawned with (linked, supervised, notify)
    parent,     \* the spawner of each task
    tasks,      \* TCB.tasks: the task's taskgroup
    anc,        \* TCB.ancestors (before the TCB exists: the wrapper's local list)
    is_main,    \* TCB.is_main
    has_tcb,    \* the task's TCB is stored in its TLS
    unwinding,  \* rust_task_is_unwinding
    killed,     \* the runtime's kill flag of the task
    nfailed,    \* AutoNotify.failed
    ran,        \* the body f() was called
    tg,         \* the content of every TaskGroupArc
    node,       \* the content of every ancestor node
    wstk,       \* the nodes whose lock the task holds in its each_ancestor walk
    wlog,       \* the task's latest each_ancestor call: what it visited and did
    exits,      \* the Exit results sent on each task's notify channel
    sig,        \* <<from, to>>: rust_task_kill_other(to) was called by from
    killall,    \* the tasks that called rust_task_kill_all
    allsig,     \* <<from, to>>: from's rust_task_kill_all reached to
    freed,      \* signals sent to a task whose teardown had completed
    failedby,   \* <<task, group>>: task's kill_taskgroup cleared group's slot
    enlfail,    \* tasks one of whose enlist_in_taskgroup calls returned false
    fault,      \* assertions of the code that were reached with a false condition
    trychild,   \* the child spawned by the task's latest try
    tryres,     \* what that try returned ("wait" while it blocks on the future)
    \* Task builders of one calling task.
    bld,        \* the TaskBuilder values the caller holds
    bfail,      \* the caller failed
    braw,       \* the options handed to spawn_raw
    bhist,      \* what has been done with each builder value so far
    \* Task-local data.
    lpc,        \* "unborn", "run", "exited" (at-exit hooks not yet run), "over"
    lhow,       \* how the task exited: "returned", "failed" or "killed"
    tls_ptr,    \* the runtime's local-data pointer of the task is not null
    tls_map,    \* the TaskLocalMap the pointer refers to
    atexit,     \* registrations of cleanup_task_local_map for the task
    nref,       \* number of local_set calls so far (each stores one reference)
    owner,      \* the task whose local_set stored the reference
    released,   \* how often the map dropped the reference
    moved,      \* the references a pop handed to its caller
    lret,       \* the task's latest call: what get or pop returned or modify_fn
                \* received (val), what set or modify stored (put)
    tcb_drop,   \* the task's TCB was dropped (done), and the references its
                \* map still held at that moment (held)
    \* Guards of one task.
    gpc,            \* "run", "unwind" (the task fails), "done"
    gscope,         \* the guards the task is inside of, outermost first
    disallow_kill,  \* the runtime's kill-inhibit count of the task
    disallow_yield, \* the runtime's yield-inhibit count of the task
    gkilled,        \* the runtime's kill flag of the task
    gwin,           \* position inside spawn_raw's unkillable block
    gcreated,       \* children created with new_task
    gstarted,       \* children handed to start_task
    gev,            \* the latest event of the task
    \* Locks.
    kpc,            \* position of each task in its operation
    kop,            \* the operation: "enlist", "teardown" or "spawn"
    kstk,           \* the frames of iterate the task is in, outermost first
    kown,           \* the task's own group
    group_lock,     \* the holder of each taskgroup's lock
    node_lock,      \* the holder of each ancestor node's lock
    \* Taskgroup operations called directly.
    called          \* the latest call: the operation, the task token, is_member

\* What only spawn_raw writes, and what only kill_taskgroup writes.
spawned == <<opts, parent, tasks, is_main>>
kills == <<killed, sig, killall, allsig, freed, failedby>>

trying == <<trychild, tryres>>

\* The state of the task supervision core.
taskvars == <<pc, opts, parent, tasks, anc, is_main, has_tcb, unwinding, killed,
              nfailed, ran, tg, node, wstk, wlog, exits, sig, killall, allsig, freed,
              failedby, enlfail, fault, trychild, tryres>>

\* The state of the builders.
buildervars == <<bld, bfail, braw, bhist>>

\* The state of task-local data.
tlsvars == <<lpc, lhow, tls_ptr, tls_map, atexit, nref, owner, released, moved, lret, tcb_drop>>

\* The state of the guards.
guardvars == <<gpc, gscope, disallow_kill, disallow_yield, gkilled, gwin, gcreated,
               gstarted, gev>>

\* The state of the locks.
lockvars == <<kpc, kop, kstk, kown, group_lock, node_lock>>

\* The taskgroup operations called directly.
setvars == <<called>>

\* What the task supervision core never touches.
others == <<buildervars, tlsvars, guardvars, lockvars, setvars>>

vars == <<taskvars, buildervars, tlsvars, guardvars, lockvars, setvars>>

----------------------------------------------------------------------------
\* Task sets.

new_taskset == {}

taskset_insert(set, task) == set \cup {task}

taskset_remove(set, task) == set \ {task}

\* Option<TaskGroupData>: some = FALSE is the None of a failing group.
NewGroup == [some |-> TRUE, members |-> new_taskset, descendants |-> new_taskset]

FailingGroup == [some |-> FALSE, members |-> {}, descendants |-> {}]

taskgroup_is_dead(g) == g.members = {}

\* An enlist_in_taskgroup that inserts into members whatever is_member is.
enlist_in_taskgroup_as_member(state, me, is_member) ==
    IF state.some
    THEN [state EXCEPT !.members = taskset_insert(state.members, me)]
    ELSE state

\* enlist_in_taskgroup: the state it leaves, and its result.
enlist_in_taskgroup(state, me, is_member) ==
    IF state.some
    THEN IF is_member
         THEN [state EXCEPT !.members = taskset_insert(state.members, me)]
         ELSE [state EXCEPT !.descendants = taskset_insert(state.descendants, me)]
    ELSE state

enlist_result(state) == state.some

\* A leave_taskgroup that puts a group back into a failing slot.
leave_taskgroup_restores(state, me, is_member) ==
    IF state.some
    THEN IF is_member
         THEN [state EXCEPT !.members = taskset_remove(state.members, me)]
         ELSE [state EXCEPT !.descendants = taskset_remove(state.descendants, me)]
    ELSE NewGroup

\* leave_taskgroup: the state it leaves.
leave_taskgroup(state, me, is_member) ==
    IF state.some
    THEN IF is_member
         THEN [state EXCEPT !.members = taskset_remove(state.members, me)]
         ELSE [state EXCEPT !.descendants = taskset_remove(state.descendants, me)]
    ELSE state

\* A kill_taskgroup that signals the descendants only.
kill_targets_descendants_only(state, me) ==
    IF state.some THEN state.descendants ELSE {}

\* kill_taskgroup: the tasks it calls rust_task_kill_other on.
kill_targets(state, me) ==
    IF state.some
    THEN (state.members \ {me}) \cup state.descendants
    ELSE {}

\* A kill_taskgroup that calls rust_task_kill_all whoever the caller is.
kill_does_all_whoever(state, main) == state.some

\* kill_taskgroup: whether it calls rust_task_kill_all.
kill_does_all(state, main) == state.some /\ main

\* A kill_taskgroup that puts the group back into the slot.
kill_taskgroup_restores(state) == state

\* kill_taskgroup: the state it leaves.
kill_taskgroup(state) == FailingGroup

\* The assertions of taskset_insert, taskset_remove and kill_taskgroup.
InsertFault(state, me, is_member) ==
    IF state.some /\ me \in (IF is_member THEN state.members ELSE state.descendants)
    THEN {"taskset_insert"} ELSE {}

\* A taskset_remove that tolerates the removal of a task that is not there.
RemoveFault_tolerant(state, me, is_member) == {}

RemoveFault(state, me, is_member) ==
    IF state.some /\ me \notin (IF is_member THEN state.members ELSE state.descendants)
    THEN {"taskset_remove"} ELSE {}

KillFault(state, me) ==
    IF state.some /\ me \in state.descendants THEN {"kill_child_is_me"} ELSE {}

\* rust_task_kill_all: every task of the process that exists gets the signal.
\* (A signal to a task that is over lands in its freed task structure; the
\* model records it in freed and lets it change nothing else.)
kill_all_targets(me) == {t \in Tasks : pc[t] \notin {"unborn", "done"}} \ {me}

----------------------------------------------------------------------------
\* Ancestor lists.

NewNode == [generation |-> 0, parent_group |-> Root, ancestors |-> NoNode]

\* The node lock is held by the walker that has the node on its stack.
Locked(n) == \E t \in Tasks : \E i \in DOMAIN wstk[t] : wstk[t][i].n = n

Front(s) == SubSeq(s, 1, Len(s) - 1)

Last(s) == s[Len(s)]

\* The list the walker looks at next: its own list, or the tail of the node
\* it visited last.
CurPtr(t) == IF wstk[t] = <<>> THEN anc[t] ELSE node[Last(wstk[t]).n].ancestors

\* The nodes of a list, head first.
RECURSIVE ChainSeqOf(_, _)
ChainSeqOf(nd, n) ==
    IF n = NoNode THEN <<>> ELSE <<n>> \o ChainSeqOf(nd, nd[n].ancestors)

\* No each_ancestor call yet.  vis: the nodes visited, in order, each with the
\* state of its group at the visit and what forward_blk returned ("skipped"
\* when it was not called); bail: the nodes bail_blk was called on, in order;
\* ret: what each_ancestor returned ("none" until then); after: the list the
\* call was made on when it returned.
NoWalk == [vis |-> <<>>, bail |-> <<>>, ret |-> "none", after |-> <<>>]

\* An iterate that returns through every frame without calling bail_blk.
RECURSIVE Ascend_without_bail(_, _, _, _, _)
Ascend_without_bail(nd, h, s, brk, bail) ==
    IF s = <<>> THEN [nd |-> nd, h |-> h, s |-> s]
    ELSE LET f == Last(s)
             rest == nd[f.n].ancestors
             up == Front(s)
             nd1 == IF f.dead THEN [nd EXCEPT ![f.n].ancestors = NoNode] ELSE nd
             nd2 == IF f.dead /\ up # <<>>
                    THEN [nd1 EXCEPT ![Last(up).n].ancestors = rest] ELSE nd1
             h2 == IF f.dead /\ up = <<>> THEN rest ELSE h
         IN Ascend_without_bail(nd2, h2, up, brk, bail)

\* An iterate that calls bail_blk in every frame once forward_blk broke.
RECURSIVE Ascend_bail_on_dead(_, _, _, _, _)
Ascend_bail_on_dead(nd, h, s, brk, bail) ==
    IF s = <<>> THEN [nd |-> nd, h |-> h, s |-> s]
    ELSE LET f == Last(s) IN
         IF brk /\ bail THEN [nd |-> nd, h |-> h, s |-> s]
         ELSE LET rest == nd[f.n].ancestors
                  up == Front(s)
                  nd1 == IF f.dead THEN [nd EXCEPT ![f.n].ancestors = NoNode] ELSE nd
                  nd2 == IF f.dead /\ up # <<>>
                         THEN [nd1 EXCEPT ![Last(up).n].ancestors = rest] ELSE nd1
                  h2 == IF f.dead /\ up = <<>> THEN rest ELSE h
              IN Ascend_bail_on_dead(nd2, h2, up, brk, bail)

\* An iterate that leaves the nodes of dead groups in the list.
RECURSIVE Ascend_without_coalesce(_, _, _, _, _)
Ascend_without_coalesce(nd, h, s, brk, bail) ==
    IF s = <<>> THEN [nd |-> nd, h |-> h, s |-> s]
    ELSE LET f == Last(s) IN
         IF brk /\ bail /\ ~f.dead THEN [nd |-> nd, h |-> h, s |-> s]
         ELSE Ascend_without_coalesce(nd, h, Front(s), brk, bail)

\* coalesce/iterate on the way back up: frames return until a frame has to
\* call bail_blk (need_unwind && !nobe_is_dead, with a bail_blk supplied).  A
\* dead frame hands its tail to its caller's list and keeps None.
RECURSIVE Ascend(_, _, _, _, _)
Ascend(nd, h, s, brk, bail) ==
    IF s = <<>> THEN [nd |-> nd, h |-> h, s |-> s]
    ELSE LET f == Last(s) IN
         IF brk /\ bail /\ ~f.dead THEN [nd |-> nd, h |-> h, s |-> s]
         ELSE LET rest == nd[f.n].ancestors
                  up == Front(s)
                  nd1 == IF f.dead THEN [nd EXCEPT ![f.n].ancestors = NoNode] ELSE nd
                  nd2 == IF f.dead /\ up # <<>>
                         THEN [nd1 EXCEPT ![Last(up).n].ancestors = rest] ELSE nd1
                  h2 == IF f.dead /\ up = <<>> THEN rest ELSE h
              IN Ascend(nd2, h2, up, brk, bail)

----------------------------------------------------------------------------
\* The task builder.  A builder value is its options (notify: the builder
\* holds a notify channel; sched: it holds scheduler options), its body
\* generator (the number of wrappers added) and its consumed bit.  A method
\* returns ok (it did not fail), self (the receiver as the call leaves it)
\* and out (the builder it returns).

\* Number of builder values the calling task can create.
MaxBuilders == 4

\* Length of the longest chain of linkage methods before a spawn.
MaxChain == 3

BuilderIds == 1 .. MaxBuilders

default_task_opts ==
    [linked |-> TRUE, supervised |-> FALSE, notify |-> FALSE, sched |-> FALSE]

\* task()
new_builder == [opts |-> default_task_opts, gen_body |-> 0, consumed |-> FALSE]

\* option::swap_unwrap(&mut self.opts.notify_chan): the channel leaves self.
swap_notify_chan(b) == [b EXCEPT !.opts.notify = FALSE]

\* A consume that does not look at the consumed bit.
consume_unchecked(b) ==
    [ok |-> TRUE,
     self |-> [swap_notify_chan(b) EXCEPT !.consumed = TRUE],
     out |-> [opts |-> b.opts, gen_body |-> b.gen_body, consumed |-> FALSE]]

consume(b) ==
    IF b.consumed
    THEN [ok |-> FALSE, self |-> b, out |-> b]
    ELSE [ok |-> TRUE,
          self |-> [swap_notify_chan(b) EXCEPT !.consumed = TRUE],
          out |-> [opts |-> b.opts, gen_body |-> b.gen_body, consumed |-> FALSE]]

\* TaskBuilder({ opts: o, .. *self.consume() }) after the channel was swapped
\* out of self: the new options and body generator on a consumed receiver.
rebuild(b, o, gen) ==
    LET c == consume(swap_notify_chan(b))
    IN [ok |-> c.ok, self |-> c.self,
        out |-> [opts |-> o, gen_body |-> gen, consumed |-> FALSE]]

\* An unlinked() that does not carry the notify channel over.
TaskBuilder_unlinked_drops_notify(b) ==
    rebuild(b, [linked |-> FALSE, supervised |-> b.opts.supervised,
                notify |-> FALSE, sched |-> b.opts.sched], b.gen_body)

TaskBuilder_unlinked(b) ==
    rebuild(b, [linked |-> FALSE, supervised |-> b.opts.supervised,
                notify |-> b.opts.notify, sched |-> b.opts.sched], b.gen_body)

\* A supervised() that links the child like linked().
TaskBuilder_supervised_as_linked(b) ==
    rebuild(b, [linked |-> TRUE, supervised |-> FALSE,
                notify |-> b.opts.notify, sched |-> b.opts.sched], b.gen_body)

TaskBuilder_supervised(b) ==
    rebuild(b, [linked |-> FALSE, supervised |-> TRUE,
                notify |-> b.opts.notify, sched |-> b.opts.sched], b.gen_body)

TaskBuilder_linked(b) ==
    rebuild(b, [linked |-> TRUE, supervised |-> FALSE,
                notify |-> b.opts.notify, sched |-> b.opts.sched], b.gen_body)

sched_mode(b) ==
    rebuild(b, [linked |-> b.opts.linked, supervised |-> b.opts.supervised,
                notify |-> b.opts.notify, sched |-> TRUE], b.gen_body)

add_wrapper(b) ==
    rebuild(b, [linked |-> b.opts.linked, supervised |-> b.opts.supervised,
                notify |-> b.opts.notify, sched |-> b.opts.sched], b.gen_body + 1)

\* future_result: fails when a channel is already set, else makes the stream,
\* calls blk and rebuilds with the new channel (self holds none to swap).
future_result(b) ==
    IF b.opts.notify
    THEN [ok |-> FALSE, self |-> b, out |-> b]
    ELSE LET c == consume(b)
         IN [ok |-> c.ok, self |-> c.self,
             out |-> [opts |-> [linked |-> b.opts.linked,
                                supervised |-> b.opts.supervised,
                                notify |-> TRUE, sched |-> b.opts.sched],
                      gen_body |-> b.gen_body, consumed |-> FALSE]]

\* spawn: the options it hands to spawn_raw (raw), when consume does not fail.
\* spawn_with, spawn_listener and spawn_conversation go through spawn.
builder_spawn(b) ==
    LET c == consume(swap_notify_chan(b))
    IN [ok |-> c.ok, self |-> c.self,
        raw |-> [linked |-> c.out.opts.linked, supervised |-> c.out.opts.supervised,
                 notify |-> b.opts.notify, sched |-> c.out.opts.sched]]

\* try: future_result, then spawn on the builder it returned.
builder_try(b) ==
    LET fr == future_result(b)
    IN [ok |-> fr.ok, self |-> fr.self, raw |-> builder_spawn(fr.out).raw]

ConfigMethods ==
    {"unlinked", "supervised", "linked", "future_result", "sched_mode", "add_wrapper"}

LinkageMethods == {"unlinked", "supervised", "linked"}

Terminals == {"spawn", "try"}

Method(m, b) ==
    CASE m = "unlinked" -> TaskBuilder_unlinked(b)
      [] m = "supervised" -> TaskBuilder_supervised(b)
      [] m = "linked" -> TaskBuilder_linked(b)
      [] m = "future_result" -> future_result(b)
      [] m = "sched_mode" -> sched_mode(b)
      [] m = "add_wrapper" -> add_wrapper(b)

Terminal(m, b) == IF m = "spawn" THEN builder_spawn(b) ELSE builder_try(b)

\* task().m1().m2()...: the builder a chain of methods on fresh values gives.
RECURSIVE chain_builder(_)
chain_builder(ch) ==
    IF ch = <<>> THEN new_builder
    ELSE Method(ch[Len(ch)], chain_builder(SubSeq(ch, 1, Len(ch) - 1))).out

\* The chains of linkage methods of at most MaxChain calls.
Chains == UNION {[1 .. n -> LinkageMethods] : n \in 0 .. MaxChain}

\* The caller holds no builder.
BuilderIdle ==
    /\ bld = [i \in BuilderIds |-> new_builder]
    /\ bfail = FALSE
    /\ braw = {}
    /\ bhist = [state |-> [i \in BuilderIds |-> "free"],
                future |-> [i \in BuilderIds |-> FALSE],
                from |-> [i \in BuilderIds |-> "none"],
                reused |-> {},
                dup |-> {}]

\* The next builder value the caller creates.
FreeBuilder(j) ==
    /\ bhist.state[j] = "free"
    /\ \A k \in BuilderIds : k < j => bhist.state[k] # "free"

\* What a call of method m on builder i adds to the history.
Attempt(i, m) ==
    [bhist EXCEPT
       !.state[i] = "used",
       !.reused = IF bhist.state[i] = "used" THEN @ \cup {<<i, m>>} ELSE @,
       !.dup = IF bhist.future[i] /\ m \in {"future_result", "try"}
               THEN @ \cup {<<i, m>>} ELSE @]

\* let b = task();
BTask ==
    /\ ~bfail
    /\ \E j \in BuilderIds :
        /\ FreeBuilder(j)
        /\ bld' = [bld EXCEPT ![j] = new_builder]
        /\ bhist' = [bhist EXCEPT !.state[j] = "fresh", !.from[j] = "task"]
    /\ UNCHANGED <<bfail, braw>>
    /\ UNCHANGED <<taskvars, tlsvars, guardvars, lockvars, setvars>>

\* let c = b.m(...);  for a configuration method m
BConfigure(i, m) ==
    /\ ~bfail
    /\ bhist.state[i] # "free"
    /\ LET r == Method(m, bld[i])
           h == Attempt(i, m)
       IN IF r.ok
          THEN \E j \in BuilderIds :
                 /\ FreeBuilder(j)
                 /\ bld' = [bld EXCEPT ![i] = r.self, ![j] = r.out]
                 /\ bhist' = [h EXCEPT !.state[j] = "fresh",
                                       !.from[j] = m,
                                       !.future[j] = bhist.future[i] \/ m = "future_result"]
                 /\ UNCHANGED bfail
          ELSE /\ bld' = [bld EXCEPT ![i] = r.self]
               /\ bhist' = h
               /\ bfail' = TRUE
    /\ UNCHANGED braw
    /\ UNCHANGED <<taskvars, tlsvars, guardvars, lockvars, setvars>>

\* b.spawn(f);  b.try(f);
BTerminal(i, m) ==
    /\ ~bfail
    /\ bhist.state[i] # "free"
    /\ LET r == Terminal(m, bld[i])
       IN /\ bld' = [bld EXCEPT ![i] = r.self]
          /\ bhist' = Attempt(i, m)
          /\ bfail' = ~r.ok
          /\ braw' = IF r.ok
                     THEN braw \cup {[id |-> i, op |-> m, opts |-> r.raw,
                                      reuse |-> bhist.state[i] = "used",
                                      dup |-> bhist.future[i] /\ m = "try"]}
                     ELSE braw
    /\ UNCHANGED <<taskvars, tlsvars, guardvars, lockvars, setvars>>

BuilderNext ==
    \/ BTask
    \/ \E i \in BuilderIds, m \in ConfigMethods : BConfigure(i, m)
    \/ \E i \in BuilderIds, m \in Terminals : BTerminal(i, m)

----------------------------------------------------------------------------
\* Task-local data.  A map is a sequence of slots; a slot is empty (NoEntry)
\* or holds a key, the data stored under it, and the reference the map owns
\* on that data (one per local_set call).

\* Number of tasks that use task-local data in one execution.
MaxLocalTasks == 2

\* Number of local_set calls in one execution.
MaxRefs == 4

LocalTasks == 0 .. (MaxLocalTasks - 1)

Refs == 1 .. MaxRefs

\* The keys of the program, and taskgroup_key!(), under which spawn_raw and
\* the child wrapper keep the TCB.
UserKeys == {"k1", "k2"}

Keys == UserKeys \cup {"taskgroup_key"}

\* The data the program stores, and the TCB.
UserData == {1, 2}

TCBData == 3

\* None, as a slot and as a result.
NoEntry == [key |-> "none", data |-> 0, ref |-> 0]

\* A get_task_local_map that registers the cleanup on every call.
get_task_local_map_always_registers(task) == [slot |-> task, register |-> TRUE]

\* A get_task_local_map that takes the first task's map for every task.
get_task_local_map_shared(task) == [slot |-> Root, register |-> ~tls_ptr[Root]]

\* get_task_local_map: the task's map; a null pointer makes it create the map
\* and register cleanup_task_local_map.
get_task_local_map(task) == [slot |-> task, register |-> ~tls_ptr[task]]

\* (*map).position(pred): the first index that satisfies pred, or 0.
position(indices) ==
    IF indices = {} THEN 0 ELSE CHOOSE i \in indices : \A j \in indices : i <= j

local_data_lookup(map, key) == position({i \in DOMAIN map : map[i].key = key})

\* A local_get_helper that removes the entry also when do_pop is false.
local_get_helper_always_pops(map, key, do_pop) ==
    LET index == local_data_lookup(map, key)
    IN IF index = 0 THEN [ret |-> NoEntry, map |-> map]
       ELSE [ret |-> map[index], map |-> [map EXCEPT ![index] = NoEntry]]

\* local_get (do_pop false) and local_pop (do_pop true).
local_get_helper(map, key, do_pop) ==
    LET index == local_data_lookup(map, key)
    IN IF index = 0 THEN [ret |-> NoEntry, map |-> map]
       ELSE [ret |-> map[index],
             map |-> IF do_pop THEN [map EXCEPT ![index] = NoEntry] ELSE map]

\* A local_set that always grows the vector.
local_set_always_push(map, new_entry) == [map |-> Append(map, new_entry), old |-> 0]

\* local_set: the new map, and the reference that the overwrite dropped.
local_set(map, new_entry) ==
    LET index == local_data_lookup(map, new_entry.key)
        empty_index == position({i \in DOMAIN map : map[i] = NoEntry})
    IN IF index # 0
       THEN [map |-> [map EXCEPT ![index] = new_entry], old |-> map[index].ref]
       ELSE IF empty_index # 0
            THEN [map |-> [map EXCEPT ![empty_index] = new_entry], old |-> 0]
            ELSE [map |-> Append(map, new_entry), old |-> 0]

\* The functions handed to local_modify: drop the value, hand back the value
\* received, or hand back new_data.  0 is None.
ModifyFns == {"drop", "keep", "put"}

modify_fn(f, received, new_data) ==
    CASE f = "drop" -> 0
      [] f = "keep" -> received
      [] f = "put" -> new_data

\* A local_modify that reads the old value with local_get.
local_modify_without_pop(map, key, f, new_data, new_ref) ==
    LET got == local_get_helper(map, key, FALSE)
        newdata == modify_fn(f, got.ret.data, new_data)
        set == local_set(got.map, [key |-> key, data |-> newdata, ref |-> new_ref])
    IN IF newdata # 0
       THEN [arg |-> got.ret, map |-> set.map, old |-> set.old, stored |-> TRUE]
       ELSE [arg |-> got.ret, map |-> got.map, old |-> 0, stored |-> FALSE]

\* local_modify: arg is what modify_fn received; stored: local_set was called.
local_modify(map, key, f, new_data, new_ref) ==
    LET popped == local_get_helper(map, key, TRUE)
        newdata == modify_fn(f, popped.ret.data, new_data)
        set == local_set(popped.map, [key |-> key, data |-> newdata, ref |-> new_ref])
    IN IF newdata # 0
       THEN [arg |-> popped.ret, map |-> set.map, old |-> set.old, stored |-> TRUE]
       ELSE [arg |-> popped.ret, map |-> popped.map, old |-> 0, stored |-> FALSE]

\* The references a map holds.
MapRefs(map) == {map[i].ref : i \in DOMAIN map} \ {0}

\* The TCB of the task has not been dropped.
NoDrop == [done |-> FALSE, held |-> {}]

\* The map is dropped with its entries released in order, from the first
\* slot on: the references released after the entry of slot index.
dropped_after(map, index) ==
    {map[i].ref : i \in {j \in DOMAIN map : j > index}} \ {0}

\* The drop of the TCB, whose notifier (if any) sends Exit: what the map
\* still holds at that moment.
tcb_dropped(map) ==
    LET index == local_data_lookup(map, "taskgroup_key")
    IN IF index = 0 THEN NoDrop
       ELSE [done |-> TRUE, held |-> dropped_after(map, index)]

\* The first task runs and has not used task-local data.
LocalIdle ==
    /\ lpc = [t \in LocalTasks |-> IF t = Root THEN "run" ELSE "unborn"]
    /\ lhow = [t \in LocalTasks |-> "none"]
    /\ tls_ptr = [t \in LocalTasks |-> FALSE]
    /\ tls_map = [t \in LocalTasks |-> <<>>]
    /\ atexit = [t \in LocalTasks |-> 0]
    /\ nref = 0
    /\ owner = [r \in Refs |-> Root]
    /\ released = [r \in Refs |-> 0]
    /\ moved = {}
    /\ lret = [t \in LocalTasks |->
                 [op |-> "none", key |-> "none", val |-> NoEntry, put |-> NoEntry]]
    /\ tcb_drop = [t \in LocalTasks |-> NoDrop]

\* What every call that goes through get_task_local_map does to the pointer
\* and to the at-exit registrations.
UseMap(task) ==
    LET m == get_task_local_map(task)
    IN /\ tls_ptr' = [tls_ptr EXCEPT ![m.slot] = TRUE]
       /\ atexit' = [atexit EXCEPT ![m.slot] = IF m.register THEN @ + 1 ELSE @]

\* What dropping the map's reference old (0: none) does.
Release(old) == IF old = 0 THEN released ELSE [released EXCEPT ![old] = @ + 1]

\* local_data_set(key, data) called by task t.
LSet(t, key, data) ==
    /\ lpc[t] = "run"
    /\ nref < MaxRefs
    /\ LET m == get_task_local_map(t)
           r == local_set(tls_map[m.slot], [key |-> key, data |-> data, ref |-> nref + 1])
       IN /\ tls_map' = [tls_map EXCEPT ![m.slot] = r.map]
          /\ released' = Release(r.old)
    /\ UseMap(t)
    /\ nref' = nref + 1
    /\ owner' = [owner EXCEPT ![nref + 1] = t]
    /\ lret' = [lret EXCEPT ![t] = [op |-> "set", key |-> key, val |-> NoEntry,
                                    put |-> [key |-> key, data |-> data, ref |-> nref + 1]]]
    /\ UNCHANGED <<lpc, lhow, moved, tcb_drop>>
    /\ UNCHANGED <<taskvars, buildervars, guardvars, lockvars, setvars>>

\* local_data_get(key) called by task t.
LGet(t, key) ==
    /\ lpc[t] = "run"
    /\ LET m == get_task_local_map(t)
           r == local_get_helper(tls_map[m.slot], key, FALSE)
       IN /\ tls_map' = [tls_map EXCEPT ![m.slot] = r.map]
          /\ lret' = [lret EXCEPT ![t] = [op |-> "get", key |-> key, val |-> r.ret,
                                          put |-> NoEntry]]
    /\ UseMap(t)
    /\ UNCHANGED <<lpc, lhow, nref, owner, released, moved, tcb_drop>>
    /\ UNCHANGED <<taskvars, buildervars, guardvars, lockvars, setvars>>

\* local_data_pop(key) called by task t.
LPop(t, key) ==
    /\ lpc[t] = "run"
    /\ LET m == get_task_local_map(t)
           r == local_get_helper(tls_map[m.slot], key, TRUE)
       IN /\ tls_map' = [tls_map EXCEPT ![m.slot] = r.map]
          /\ lret' = [lret EXCEPT ![t] = [op |-> "pop", key |-> key, val |-> r.ret,
                                          put |-> NoEntry]]
          /\ moved' = moved \cup ({r.ret.ref} \ {0})
    /\ UseMap(t)
    /\ UNCHANGED <<lpc, lhow, nref, owner, released, tcb_drop>>
    /\ UNCHANGED <<taskvars, buildervars, guardvars, lockvars, setvars>>

\* local_data_modify(key, f) called by task t.
LModify(t, key, f, data) ==
    /\ lpc[t] = "run"
    /\ nref < MaxRefs
    /\ LET m == get_task_local_map(t)
           r == local_modify(tls_map[m.slot], key, f, data, nref + 1)
       IN /\ tls_map' = [tls_map EXCEPT ![m.slot] = r.map]
          /\ released' = Release(r.old)
          /\ moved' = moved \cup ((MapRefs(tls_map[m.slot]) \ MapRefs(r.map)) \ {r.old})
          /\ nref' = IF r.stored THEN nref + 1 ELSE nref
          /\ owner' = IF r.stored THEN [owner EXCEPT ![nref + 1] = t] ELSE owner
          /\ lret' = [lret EXCEPT ![t] =
                         [op |-> "modify", key |-> key, val |-> r.arg,
                          put |-> IF r.stored
                                  THEN r.map[position({i \in DOMAIN r.map :
                                                         r.map[i].ref = nref + 1})]
                                  ELSE NoEntry]]
    /\ UseMap(t)
    /\ UNCHANGED <<lpc, lhow, tcb_drop>>
    /\ UNCHANGED <<taskvars, buildervars, guardvars, lockvars, setvars>>

\* spawn_raw called by task p: gen_child_taskgroup looks the spawner's TCB up
\* in its map and stores one if there is none; the child's wrapper stores the
\* child's TCB in the child's map before the body runs.
LSpawn(p) ==
    /\ lpc[p] = "run"
    /\ \E c \in LocalTasks :
        /\ lpc[c] = "unborn"
        /\ \A d \in LocalTasks : d < c => lpc[d] # "unborn"
        /\ LET mp == get_task_local_map(p)
               mc == get_task_local_map(c)
               has == local_get_helper(tls_map[mp.slot], "taskgroup_key", FALSE).ret # NoEntry
               np == IF has THEN nref ELSE nref + 1
               sp == IF has THEN [map |-> tls_map[mp.slot], old |-> 0]
                     ELSE local_set(tls_map[mp.slot],
                                    [key |-> "taskgroup_key", data |-> TCBData, ref |-> np])
               afterp == [tls_map EXCEPT ![mp.slot] = sp.map]
               sc == local_set(afterp[mc.slot],
                               [key |-> "taskgroup_key", data |-> TCBData, ref |-> np + 1])
           IN /\ np + 1 <= MaxRefs
              /\ tls_map' = [afterp EXCEPT ![mc.slot] = sc.map]
              /\ nref' = np + 1
              /\ owner' = [r \in Refs |->
                             IF r = np + 1 THEN c
                             ELSE IF r = np /\ ~has THEN p ELSE owner[r]]
              /\ released' = [r \in Refs |->
                                released[r] + (IF r # 0 /\ r = sp.old THEN 1 ELSE 0)
                                            + (IF r # 0 /\ r = sc.old THEN 1 ELSE 0)]
              /\ tls_ptr' = [tls_ptr EXCEPT ![mp.slot] = TRUE, ![mc.slot] = TRUE]
              /\ atexit' = [x \in LocalTasks |->
                              atexit[x] + (IF x = mp.slot /\ mp.register THEN 1 ELSE 0)
                                        + (IF x = mc.slot /\ mc.register /\ mc.slot # mp.slot
                                           THEN 1 ELSE 0)]
        /\ lpc' = [lpc EXCEPT ![c] = "run"]
    /\ UNCHANGED <<lhow, moved, lret, tcb_drop>>
    /\ UNCHANGED <<taskvars, buildervars, guardvars, lockvars, setvars>>

\* The task's body returns, fails, or is killed at a yield.
LExit(t, how) ==
    /\ lpc[t] = "run"
    /\ lpc' = [lpc EXCEPT ![t] = "exited"]
    /\ lhow' = [lhow EXCEPT ![t] = how]
    /\ UNCHANGED <<tls_ptr, tls_map, atexit, nref, owner, released, moved, lret, tcb_drop>>
    /\ UNCHANGED <<taskvars, buildervars, guardvars, lockvars, setvars>>

\* How often the runtime calls the cleanup at the exit of the task: once per
\* registration, on every way out.
atexit_calls(task) == atexit[task]

\* cleanup_task_local_map, called by the runtime when the task exits: the map
\* is dropped, and every data it holds with it, the TCB included.
LCleanup(t) ==
    /\ lpc[t] = "exited"
    /\ lpc' = [lpc EXCEPT ![t] = "over"]
    /\ released' = [r \in Refs |->
                      IF r \in MapRefs(tls_map[t]) THEN released[r] + atexit_calls(t)
                      ELSE released[r]]
    /\ tls_map' = [tls_map EXCEPT ![t] = <<>>]
    /\ tcb_drop' = [tcb_drop EXCEPT ![t] = tcb_dropped(tls_map[t])]
    /\ UNCHANGED <<lhow, tls_ptr, atexit, nref, owner, moved, lret>>
    /\ UNCHANGED <<taskvars, buildervars, guardvars, lockvars, setvars>>

LocalNext ==
    \/ \E t \in LocalTasks, k \in UserKeys, d \in UserData : LSet(t, k, d)
    \/ \E t \in LocalTasks, k \in UserKeys : LGet(t, k)
    \/ \E t \in LocalTasks, k \in UserKeys : LPop(t, k)
    \/ \E t \in LocalTasks, k \in UserKeys, f \in ModifyFns, d \in UserData :
          LModify(t, k, f, d)
    \/ \E p \in LocalTasks : LSpawn(p)
    \/ \E t \in LocalTasks, how \in {"returned", "failed", "killed"} : LExit(t, how)
    \/ \E t \in LocalTasks : LCleanup(t)

----------------------------------------------------------------------------
\* unkillable, rekillable, atomically and the window of spawn_raw.

\* Deepest nesting of guards, and the children one task spawns.
MaxDepth == 3

MaxChildren == 1

GuardKinds == {"unkillable", "rekillable", "atomically"}

\* rust_task_inhibit_kill / rust_task_allow_kill / rust_task_inhibit_yield /
\* rust_task_allow_yield: reference counts of the running task.
rust_task_inhibit_kill(c) == [c EXCEPT !.kill = @ + 1]

rust_task_allow_kill(c) == [c EXCEPT !.kill = @ - 1]

rust_task_inhibit_yield(c) == [c EXCEPT !.yield = @ + 1]

rust_task_allow_yield(c) == [c EXCEPT !.yield = @ - 1]

\* The runtime reports a pending kill to a task whose kill count is zero.
must_fail_from_being_killed(c, flag) == flag /\ c.kill = 0

\* rust_task_yield: a yield with a positive yield count fails the task in the
\* runtime (fatal); otherwise the call returns whether the task was killed.
rust_task_yield(c, flag) ==
    [fatal |-> c.yield > 0,
     killed |-> c.yield = 0 /\ must_fail_from_being_killed(c, flag)]

\* yield(): fail when rust_task_yield returned true and the task is not
\* failing already (a task that runs its body is not).
yield(c, flag) ==
    LET r == rust_task_yield(c, flag) IN r.fatal \/ r.killed

\* An atomically that inhibits kills only.
guard_enter_atomically_kill_only(kind, c) ==
    IF kind = "unkillable" THEN rust_task_inhibit_kill(c)
    ELSE IF kind = "rekillable" THEN rust_task_allow_kill(c)
    ELSE rust_task_inhibit_kill(c)

\* What a guard does to the counts before it calls f.
guard_enter(kind, c) ==
    IF kind = "unkillable" THEN rust_task_inhibit_kill(c)
    ELSE IF kind = "rekillable" THEN rust_task_allow_kill(c)
    ELSE rust_task_inhibit_yield(rust_task_inhibit_kill(c))

\* An unkillable whose destructor makes the task killable at once.
guard_drop_unkillable_resets(kind, c) ==
    IF kind = "unkillable" THEN [c EXCEPT !.kill = 0]
    ELSE IF kind = "rekillable" THEN rust_task_inhibit_kill(c)
    ELSE rust_task_allow_kill(rust_task_allow_yield(c))

\* An atomically whose destructor allows the yield only.
guard_drop_atomically_yield_only(kind, c) ==
    IF kind = "unkillable" THEN rust_task_allow_kill(c)
    ELSE IF kind = "rekillable" THEN rust_task_inhibit_kill(c)
    ELSE rust_task_allow_yield(c)

\* The destructor of the guard's local (AllowFailure, DisallowFailure,
\* DeferInterrupts): it runs when f returns and when f fails.
guard_drop(kind, c) ==
    IF kind = "unkillable" THEN rust_task_allow_kill(c)
    ELSE IF kind = "rekillable" THEN rust_task_inhibit_kill(c)
    ELSE rust_task_allow_yield(rust_task_allow_kill(c))

\* A spawn_raw that creates and starts the child outside any guard.
spawn_raw_guard_none(c) == c

\* spawn_raw runs new_task .. start_task inside do unkillable { }.
spawn_raw_guard(c) == guard_enter("unkillable", c)

\* The counts of the running task.
Counts == [kill |-> disallow_kill, yield |-> disallow_yield]

NoScope == [kind |-> "none", kill |-> 0, yield |-> 0, closed |-> "none"]

\* The latest event of the task: what it was, in which scopes it happened
\* (scopes), whether a kill was pending (pending), whether the task failed
\* from it (failed) and, for the end of a scope, that scope (top).
Event(kind, failed) ==
    [kind |-> kind, failed |-> failed, pending |-> gkilled, scopes |-> gscope,
     top |-> IF gscope = <<>> THEN NoScope ELSE gscope[Len(gscope)]]

\* The task runs its body outside every guard; nobody has killed it.
GuardIdle ==
    /\ gpc = "run"
    /\ gscope = <<>>
    /\ disallow_kill = 0
    /\ disallow_yield = 0
    /\ gkilled = FALSE
    /\ gwin = "none"
    /\ gcreated = 0
    /\ gstarted = 0
    /\ gev = [kind |-> "none", failed |-> FALSE, pending |-> FALSE, scopes |-> <<>>,
              top |-> NoScope]

\* The scopes after the innermost one is left: the scope around it records
\* the kind of the nested guard that returned last (closed).
Leave(s) ==
    LET up == SubSeq(s, 1, Len(s) - 1)
    IN IF up = <<>> THEN up ELSE [up EXCEPT ![Len(up)].closed = s[Len(s)].kind]

\* A guard is entered.  rekillable is only used where kills are inhibited.
GEnter(kind) ==
    /\ gpc = "run"
    /\ gwin = "none"
    /\ Len(gscope) < MaxDepth
    /\ kind = "rekillable" => disallow_kill > 0
    /\ LET c == guard_enter(kind, Counts)
       IN /\ disallow_kill' = c.kill
          /\ disallow_yield' = c.yield
    /\ gscope' = Append(gscope, [kind |-> kind, kill |-> disallow_kill,
                                 yield |-> disallow_yield, closed |-> "none"])
    /\ gev' = Event("enter", FALSE)
    /\ UNCHANGED <<gpc, gkilled, gwin, gcreated, gstarted>>
    /\ UNCHANGED <<taskvars, buildervars, tlsvars, lockvars, setvars>>

\* f returns: the guard's destructor runs.
GExit ==
    /\ gpc = "run"
    /\ gwin = "none"
    /\ gscope # <<>>
    /\ LET c == guard_drop(gscope[Len(gscope)].kind, Counts)
       IN /\ disallow_kill' = c.kill
          /\ disallow_yield' = c.yield
    /\ gscope' = Leave(gscope)
    /\ gev' = Event("exit", FALSE)
    /\ UNCHANGED <<gpc, gkilled, gwin, gcreated, gstarted>>
    /\ UNCHANGED <<taskvars, buildervars, tlsvars, lockvars, setvars>>

\* yield(), or a blocking receive, which yields.
GYield(kind) ==
    /\ gpc = "run"
    /\ gwin = "none"
    /\ LET fails == yield(Counts, gkilled)
       IN /\ gpc' = IF fails THEN "unwind" ELSE gpc
          /\ gev' = Event(kind, fails)
    /\ UNCHANGED <<gscope, disallow_kill, disallow_yield, gkilled, gwin, gcreated,
                   gstarted>>
    /\ UNCHANGED <<taskvars, buildervars, tlsvars, lockvars, setvars>>

\* rust_task_kill_other(task) by some other task.
GKill ==
    /\ gpc # "done"
    /\ ~gkilled
    /\ gkilled' = TRUE
    /\ UNCHANGED <<gpc, gscope, disallow_kill, disallow_yield, gwin, gcreated,
                   gstarted, gev>>
    /\ UNCHANGED <<taskvars, buildervars, tlsvars, lockvars, setvars>>

\* f fails by itself.
GFail ==
    /\ gpc = "run"
    /\ gwin = "none"
    /\ gpc' = "unwind"
    /\ gev' = Event("fail", TRUE)
    /\ UNCHANGED <<gscope, disallow_kill, disallow_yield, gkilled, gwin, gcreated,
                   gstarted>>
    /\ UNCHANGED <<taskvars, buildervars, tlsvars, lockvars, setvars>>

\* Unwinding runs the destructor of the innermost guard, or ends the task.
GUnwind ==
    /\ gpc = "unwind"
    /\ IF gscope = <<>>
       THEN /\ gpc' = "done"
            /\ UNCHANGED <<gscope, disallow_kill, disallow_yield, gwin, gev>>
       ELSE /\ LET c == guard_drop(gscope[Len(gscope)].kind, Counts)
               IN /\ disallow_kill' = c.kill
                  /\ disallow_yield' = c.yield
            /\ gscope' = Leave(gscope)
            /\ gwin' = "none"
            /\ gev' = Event("drop", FALSE)
            /\ UNCHANGED gpc
    /\ UNCHANGED <<gkilled, gcreated, gstarted>>
    /\ UNCHANGED <<taskvars, buildervars, tlsvars, lockvars, setvars>>

\* The body returns outside every guard.
GReturn ==
    /\ gpc = "run"
    /\ gscope = <<>>
    /\ gpc' = "done"
    /\ UNCHANGED <<gscope, disallow_kill, disallow_yield, gkilled, gwin, gcreated,
                   gstarted, gev>>
    /\ UNCHANGED <<taskvars, buildervars, tlsvars, lockvars, setvars>>

\* spawn_raw: do unkillable {
GSpawnEnter ==
    /\ gpc = "run"
    /\ gwin = "none"
    /\ Len(gscope) < MaxDepth
    /\ gcreated < MaxChildren
    /\ LET c == spawn_raw_guard(Counts)
       IN /\ disallow_kill' = c.kill
          /\ disallow_yield' = c.yield
    /\ gscope' = Append(gscope, [kind |-> "unkillable", kill |-> disallow_kill,
                                 yield |-> disallow_yield, closed |-> "none"])
    /\ gwin' = "entered"
    /\ gev' = Event("enter", FALSE)
    /\ UNCHANGED <<gpc, gkilled, gcreated, gstarted>>
    /\ UNCHANGED <<taskvars, buildervars, tlsvars, lockvars, setvars>>

\* rustrt::new_task()
GNewTask ==
    /\ gpc = "run"
    /\ gwin = "entered"
    /\ gcreated' = gcreated + 1
    /\ gwin' = "created"
    /\ UNCHANGED <<gpc, gscope, disallow_kill, disallow_yield, gkilled, gstarted, gev>>
    /\ UNCHANGED <<taskvars, buildervars, tlsvars, lockvars, setvars>>

\* Between new_task and start_task the task is in the runtime, which makes
\* it fail there when it has to fail from being killed.
GWindowPoint ==
    /\ gpc = "run"
    /\ gwin = "created"
    /\ LET fails == must_fail_from_being_killed(Counts, gkilled)
       IN /\ gpc' = IF fails THEN "unwind" ELSE gpc
          /\ gev' = Event("native", fails)
    /\ UNCHANGED <<gscope, disallow_kill, disallow_yield, gkilled, gwin, gcreated,
                   gstarted>>
    /\ UNCHANGED <<taskvars, buildervars, tlsvars, lockvars, setvars>>

\* rustrt::start_task(new_task, closure)
GStartTask ==
    /\ gpc = "run"
    /\ gwin = "created"
    /\ gstarted' = gstarted + 1
    /\ gwin' = "started"
    /\ UNCHANGED <<gpc, gscope, disallow_kill, disallow_yield, gkilled, gcreated, gev>>
    /\ UNCHANGED <<taskvars, buildervars, tlsvars, lockvars, setvars>>

\* } of spawn_raw's unkillable.
GSpawnExit ==
    /\ gpc = "run"
    /\ gwin = "started"
    /\ LET c == guard_drop("unkillable", Counts)
       IN /\ disallow_kill' = c.kill
          /\ disallow_yield' = c.yield
    /\ gscope' = Leave(gscope)
    /\ gwin' = "none"
    /\ gev' = Event("exit", FALSE)
    /\ UNCHANGED <<gpc, gkilled, gcreated, gstarted>>
    /\ UNCHANGED <<taskvars, buildervars, tlsvars, lockvars, setvars>>

GuardNext ==
    \/ \E kind \in GuardKinds : GEnter(kind)
    \/ GExit
    \/ \E kind \in {"yield", "block"} : GYield(kind)
    \/ GKill
    \/ GFail
    \/ GUnwind
    \/ GReturn
    \/ GSpawnEnter
    \/ GNewTask
    \/ GWindowPoint
    \/ GStartTask
    \/ GSpawnExit

----------------------------------------------------------------------------
\* The locks of taskgroups and ancestor nodes, one step per acquisition.
\*
\* The tasks work on one list of nodes MaxLockNodes .. 1: node n leads to
\* node n - 1 (node 1 to the empty list) and its parent_group is group n.
\* A task whose own group is group j has the list that starts at node j - 1.

MaxLockTasks == 2

MaxLockNodes == 2

LockTasks == 1 .. MaxLockTasks

LockNodes == 1 .. MaxLockNodes

LockGroups == 1 .. (MaxLockNodes + 1)

\* Nobody holds the lock.
Free == 0

\* The list a task of group j walks, and where a node leads to.
list_of(j) == j - 1

\* A list with a circular reference: the last node leads back to the first.
tail_of_circular(n) == IF n = 1 THEN MaxLockNodes ELSE n - 1

tail_of(n) == n - 1

parent_group_of(n) == n

\* A with_parent_tg that returns with the group's lock still held.
with_parent_tg_keeps_lock(locks, g) == locks

\* with_parent_tg / access_group: the lock is released when blk returns.
with_parent_tg(locks, g) == [locks EXCEPT ![g] = Free]

\* access_ancestors: the node's lock is released when the closure returns.
access_ancestors(locks, n) == [locks EXCEPT ![n] = Free]

\* each_ancestor on a list: the kickoff call of coalesce / iterate.
Kickoff(list) ==
    IF list = 0 THEN <<>>
    ELSE <<[n |-> list, phase |-> "lock", dead |-> FALSE, brk |-> FALSE]>>

\* Where a task goes when its each_ancestor call has returned.
AfterWalk(op, brk) == IF op = "enlist" /\ brk THEN "enl_leave" ELSE "idle"

\* No task is in an operation; the tasks are in any groups.
LockIdle ==
    /\ kpc = [t \in LockTasks |-> "idle"]
    /\ kop = [t \in LockTasks |-> "none"]
    /\ kstk = [t \in LockTasks |-> <<>>]
    /\ kown = [t \in LockTasks |-> 1]
    /\ group_lock = [g \in LockGroups |-> Free]
    /\ node_lock = [n \in LockNodes |-> Free]

\* A task of group j starts enlist_many (as a new child), the destructor of
\* its TCB, or gen_child_taskgroup for a supervised child.
KStart(t, op, j) ==
    /\ kpc[t] = "idle"
    /\ kop' = [kop EXCEPT ![t] = op]
    /\ kown' = [kown EXCEPT ![t] = j]
    /\ kpc' = [kpc EXCEPT ![t] =
                 IF op = "spawn" THEN (IF list_of(j) = 0 THEN "idle" ELSE "gen")
                 ELSE "own"]
    /\ UNCHANGED <<kstk, group_lock, node_lock>>
    /\ UNCHANGED <<taskvars, buildervars, tlsvars, guardvars, setvars>>

\* gen_child_taskgroup: access_ancestors(&arc, |a| a.generation+1) takes the
\* lock of the first node of the spawner's list.
KGenLock(t) ==
    /\ kpc[t] = "gen"
    /\ node_lock[list_of(kown[t])] = Free
    /\ node_lock' = [node_lock EXCEPT ![list_of(kown[t])] = t]
    /\ kpc' = [kpc EXCEPT ![t] = "gen_in"]
    /\ UNCHANGED <<kop, kstk, kown, group_lock>>
    /\ UNCHANGED <<taskvars, buildervars, tlsvars, guardvars, setvars>>

KGenRun(t) ==
    /\ kpc[t] = "gen_in"
    /\ node_lock' = access_ancestors(node_lock, list_of(kown[t]))
    /\ kpc' = [kpc EXCEPT ![t] = "idle"]
    /\ UNCHANGED <<kop, kstk, kown, group_lock>>
    /\ UNCHANGED <<taskvars, buildervars, tlsvars, guardvars, setvars>>

\* access_group on the task's own group: in enlist_many to enlist and to
\* leave again, in the TCB's destructor to kill or leave.
KOwnLock(t) ==
    /\ kpc[t] \in {"own", "enl_leave"}
    /\ group_lock[kown[t]] = Free
    /\ group_lock' = [group_lock EXCEPT ![kown[t]] = t]
    /\ kpc' = [kpc EXCEPT ![t] = IF kpc[t] = "own" THEN "own_in" ELSE "enl_leave_in"]
    /\ UNCHANGED <<kop, kstk, kown, node_lock>>
    /\ UNCHANGED <<taskvars, buildervars, tlsvars, guardvars, setvars>>

\* The closure runs and the lock is released.  After enlist_in_taskgroup
\* returned true, and after kill_taskgroup or leave_taskgroup in the
\* destructor, each_ancestor is called on the task's list.
KOwnRun(t, ok) ==
    /\ kpc[t] \in {"own_in", "enl_leave_in"}
    /\ group_lock' = with_parent_tg(group_lock, kown[t])
    /\ LET walk == kpc[t] = "own_in" /\ (kop[t] = "teardown" \/ ok)
           s == IF walk THEN Kickoff(list_of(kown[t])) ELSE <<>>
       IN /\ kstk' = [kstk EXCEPT ![t] = s]
          /\ kpc' = [kpc EXCEPT ![t] = IF s # <<>> THEN "walk" ELSE "idle"]
    /\ UNCHANGED <<kop, kown, node_lock>>
    /\ UNCHANGED <<taskvars, buildervars, tlsvars, guardvars, setvars>>

\* iterate: access_ancestors takes the lock of the node.
KLockNode(t) ==
    /\ kpc[t] = "walk"
    /\ LET f == kstk[t][Len(kstk[t])]
       IN /\ f.phase = "lock"
          /\ node_lock[f.n] = Free
          /\ node_lock' = [node_lock EXCEPT ![f.n] = t]
          /\ kstk' = [kstk EXCEPT ![t][Len(kstk[t])].phase = "group"]
    /\ UNCHANGED <<kpc, kop, kown, group_lock>>
    /\ UNCHANGED <<taskvars, buildervars, tlsvars, guardvars, setvars>>

\* iterate, steps 1 and 3: with_parent_tg takes the lock of the node's
\* parent group, for forward_blk and for bail_blk.
KLockGroup(t) ==
    /\ kpc[t] = "walk"
    /\ LET f == kstk[t][Len(kstk[t])]
           g == parent_group_of(f.n)
       IN /\ f.phase \in {"group", "bail"}
          /\ group_lock[g] = Free
          /\ group_lock' = [group_lock EXCEPT ![g] = t]
          /\ kstk' = [kstk EXCEPT ![t][Len(kstk[t])].phase =
                         IF f.phase = "group" THEN "fwd" ELSE "bail_in"]
    /\ UNCHANGED <<kpc, kop, kown, node_lock>>
    /\ UNCHANGED <<taskvars, buildervars, tlsvars, guardvars, setvars>>

\* An iterate that gives up the node's lock before it goes on to the tail.
recurse_hand_over_hand(locks, n) == [locks EXCEPT ![n] = Free]

\* iterate, step 2: coalesce(&mut nobe.ancestors, ...) is called inside the
\* closure of access_ancestors, so the node's lock stays held meanwhile.
recurse_in_closure(locks, n) == locks

\* iterate, step 1 and the start of step 2: the group is dead or not,
\* forward_blk returns ok, with_parent_tg returns, and coalesce is called on
\* the node's ancestors when do_continue.
KForward(t, dead, ok) ==
    /\ kpc[t] = "walk"
    /\ LET top == Len(kstk[t])
           f == kstk[t][top]
           do_continue == dead \/ ok
           here == [f EXCEPT !.dead = dead, !.brk = ~do_continue,
                             !.phase = IF do_continue /\ tail_of(f.n) # 0
                                       THEN "rec" ELSE "ret"]
       IN /\ f.phase = "fwd"
          /\ kop[t] = "teardown" => ok
          /\ group_lock' = with_parent_tg(group_lock, parent_group_of(f.n))
          /\ kstk' = [kstk EXCEPT ![t] =
                        [kstk[t] EXCEPT ![top] = here]
                            \o (IF do_continue THEN Kickoff(tail_of(f.n)) ELSE <<>>)]
          /\ node_lock' = IF do_continue THEN recurse_in_closure(node_lock, f.n)
                          ELSE node_lock
    /\ UNCHANGED <<kpc, kop, kown>>
    /\ UNCHANGED <<taskvars, buildervars, tlsvars, guardvars, setvars>>

\* iterate, step 3: bail_blk has run, with_parent_tg returns.
KBail(t) ==
    /\ kpc[t] = "walk"
    /\ LET f == kstk[t][Len(kstk[t])]
       IN /\ f.phase = "bail_in"
          /\ group_lock' = with_parent_tg(group_lock, parent_group_of(f.n))
          /\ kstk' = [kstk EXCEPT ![t][Len(kstk[t])].phase = "ret"]
    /\ UNCHANGED <<kpc, kop, kown, node_lock>>
    /\ UNCHANGED <<taskvars, buildervars, tlsvars, guardvars, setvars>>

\* The closure of access_ancestors returns: the node's lock is released and
\* the caller's frame goes on with step 3 (need_unwind is what the call
\* returned; bail_blk is supplied by enlist_many only).
KReturn(t) ==
    /\ kpc[t] = "walk"
    /\ LET top == Len(kstk[t])
           f == kstk[t][top]
           up == SubSeq(kstk[t], 1, top - 1)
           need_unwind == f.brk
       IN /\ f.phase = "ret"
          /\ node_lock' = access_ancestors(node_lock, f.n)
          /\ IF up = <<>>
             THEN /\ kstk' = [kstk EXCEPT ![t] = <<>>]
                  /\ kpc' = [kpc EXCEPT ![t] = AfterWalk(kop[t], need_unwind)]
             ELSE /\ kstk' = [kstk EXCEPT ![t] =
                                [up EXCEPT ![top - 1].brk = need_unwind,
                                           ![top - 1].phase =
                                               IF need_unwind /\ ~up[top - 1].dead
                                                  /\ kop[t] = "enlist"
                                               THEN "bail" ELSE "ret"]]
                  /\ UNCHANGED kpc
    /\ UNCHANGED <<kop, kown, group_lock>>
    /\ UNCHANGED <<taskvars, buildervars, tlsvars, guardvars, setvars>>

LockNext ==
    \/ \E t \in LockTasks, op \in {"enlist", "teardown", "spawn"}, j \in LockGroups :
          KStart(t, op, j)
    \/ \E t \in LockTasks : KGenLock(t)
    \/ \E t \in LockTasks : KGenRun(t)
    \/ \E t \in LockTasks : KOwnLock(t)
    \/ \E t \in LockTasks, ok \in BOOLEAN : KOwnRun(t, ok)
    \/ \E t \in LockTasks : KLockNode(t)
    \/ \E t \in LockTasks : KLockGroup(t)
    \/ \E t \in LockTasks, dead \in BOOLEAN, ok \in BOOLEAN : KForward(t, dead, ok)
    \/ \E t \in LockTasks : KBail(t)
    \/ \E t \in LockTasks : KReturn(t)

----------------------------------------------------------------------------
\* No taskgroup operation has been called directly.
NoCall == [op |-> "none", me |-> Root, is_member |-> FALSE]

SetsIdle == called = NoCall

\* main: the first task is the main task.
InitRoot(main) ==
    /\ pc = [t \in Tasks |-> IF t = Root THEN "run" ELSE "unborn"]
    /\ opts = [t \in Tasks |-> [linked |-> FALSE, supervised |-> FALSE, notify |-> FALSE]]
    /\ parent = [t \in Tasks |-> Root]
    /\ tasks = [t \in Tasks |-> t]
    /\ anc = [t \in Tasks |-> NoNode]
    /\ is_main = [t \in Tasks |-> FALSE]
    /\ has_tcb = [t \in Tasks |-> t = Root /\ ~main]
    /\ unwinding = [t \in Tasks |-> FALSE]
    /\ killed = [t \in Tasks |-> FALSE]
    /\ nfailed = [t \in Tasks |-> TRUE]
    /\ ran = [t \in Tasks |-> t = Root]
    /\ tg = [g \in Groups |->
               IF g = Root /\ ~main
               THEN [NewGroup EXCEPT !.members = taskset_insert(new_taskset, Root)]
               ELSE NewGroup]
    /\ node = [n \in Tasks |-> NewNode]
    /\ wstk = [t \in Tasks |-> <<>>]
    /\ wlog = [t \in Tasks |-> NoWalk]
    /\ exits = [t \in Tasks |-> <<>>]
    /\ sig = {}
    /\ killall = {}
    /\ allsig = {}
    /\ freed = {}
    /\ failedby = {}
    /\ enlfail = {}
    /\ fault = {}
    /\ trychild = [t \in Tasks |-> t]
    /\ tryres = [t \in Tasks |-> "none"]

Init == \E main \in BOOLEAN : InitRoot(main) /\ BuilderIdle /\ LocalIdle /\ GuardIdle /\ LockIdle /\ SetsIdle

----------------------------------------------------------------------------------------------------------------------------------------------------
\* gen_child_taskgroup.

\* The spawner's TCB fields, after the lazy initialisation of the main task.
spawner_is_main(p) == IF has_tcb[p] THEN is_main[p] ELSE TRUE

\* share_ancestors: a clone of the spawner's list.
share_ancestors(p) == anc[p]

\* A gen_child_taskgroup that puts every child in the spawner's group.
child_group_always_shared(p, c, linked) == tasks[p]

\* The triple gen_child_taskgroup returns for child c of spawner p.
child_group(p, c, linked) == IF linked THEN tasks[p] ELSE c

\* A gen_child_taskgroup that gives every unlinked child a node of its own.
child_ancestors_always_node(p, c, linked, supervised) ==
    IF linked THEN share_ancestors(p) ELSE c

\* A gen_child_taskgroup in which supervised overrides linked.
child_ancestors_supervised_first(p, c, linked, supervised) ==
    IF supervised THEN c
    ELSE IF linked THEN share_ancestors(p) ELSE NoNode

child_ancestors(p, c, linked, supervised) ==
    IF linked THEN share_ancestors(p)
    ELSE IF supervised THEN c ELSE NoNode

\* A gen_child_taskgroup that never hands is_main on to a linked child.
child_is_main_never(p, linked) == FALSE

child_is_main(p, linked) == IF linked THEN spawner_is_main(p) ELSE FALSE

\* A gen_child_taskgroup that gives every node generation 0.
new_generation_zero(old_ancestors) == 0

new_generation(old_ancestors) ==
    IF old_ancestors # NoNode THEN node[old_ancestors].generation + 1 ELSE 0

\* A node that does not continue with the spawner's ancestors.
new_node_without_tail(p) ==
    [generation |-> new_generation(share_ancestors(p)),
     parent_group |-> tasks[p],
     ancestors |-> NoNode]

\* The node built for a supervised child of p.
new_node(p) ==
    [generation |-> new_generation(share_ancestors(p)),
     parent_group |-> tasks[p],
     ancestors |-> share_ancestors(p)]

\* The task is inside try, blocked on the future of its child's exit.
Blocked(t) == tryres[t] = "wait"

\* spawn_raw: gen_child_taskgroup, new_task, make_child_wrapper, start_task.
Spawn(p, l, s, nf) ==
    /\ UNCHANGED others
    /\ pc[p] = "run"
    /\ ~Blocked(p)
    /\ \E c \in Tasks :
        /\ pc[c] = "unborn"
        /\ \A d \in Tasks : d < c => pc[d] # "unborn"
        \* access_ancestors(&arc, |a| a.generation+1) takes the node's lock
        /\ (~l /\ s /\ anc[p] # NoNode) => ~Locked(anc[p])
        /\ pc' = [pc EXCEPT ![c] = "start"]
        /\ opts' = [opts EXCEPT ![c] = [linked |-> l, supervised |-> s, notify |-> nf]]
        /\ parent' = [parent EXCEPT ![c] = p]
        /\ tasks' = [tasks EXCEPT ![c] = child_group(p, c, l)]
        /\ anc' = [anc EXCEPT ![c] = child_ancestors(p, c, l, s)]
        /\ is_main' = [is_main EXCEPT ![p] = spawner_is_main(p),
                                      ![c] = child_is_main(p, l)]
        /\ has_tcb' = [has_tcb EXCEPT ![p] = TRUE]
        /\ tg' = IF has_tcb[p] THEN tg
                 ELSE [tg EXCEPT ![tasks[p]] =
                          [NewGroup EXCEPT !.members = taskset_insert(new_taskset, p)]]
        /\ node' = IF ~l /\ s THEN [node EXCEPT ![c] = new_node(p)] ELSE node
    /\ UNCHANGED <<unwinding, nfailed, ran, wstk, wlog, exits, enlfail, fault>>
    /\ UNCHANGED kills

----------------------------------------------------------------------------
\* make_child_wrapper and enlist_many.

\* A TCB constructor that leaves the notifier's failed flag as it is.
EnterBody_keeps_failed(t) ==
    /\ nfailed' = nfailed
    /\ has_tcb' = [has_tcb EXCEPT ![t] = TRUE]
    /\ ran' = [ran EXCEPT ![t] = TRUE]

\* TCB(...) un-sets the notifier's failed flag; the body is called next.
EnterBody(t) ==
    /\ nfailed' = [nfailed EXCEPT ![t] = IF opts[t].notify THEN FALSE ELSE nfailed[t]]
    /\ has_tcb' = [has_tcb EXCEPT ![t] = TRUE]
    /\ ran' = [ran EXCEPT ![t] = TRUE]

\* enlist_many, first half: join the child's own group as a member.
EnlistOwn(t) ==
    /\ UNCHANGED others
    /\ UNCHANGED trying
    /\ pc[t] = "start"
    /\ LET g == tasks[t]
           ok == enlist_result(tg[g])
       IN /\ tg' = [tg EXCEPT ![g] = enlist_in_taskgroup(tg[g], t, TRUE)]
          /\ fault' = fault \cup InsertFault(tg[g], t, TRUE)
          /\ enlfail' = IF ok THEN enlfail ELSE enlfail \cup {t}
          /\ IF ok /\ anc[t] = NoNode
             THEN /\ pc' = [pc EXCEPT ![t] = "run"]
                  /\ EnterBody(t)
             ELSE /\ pc' = [pc EXCEPT ![t] = IF ok THEN "enl_walk" ELSE "notify"]
                  /\ UNCHANGED <<nfailed, has_tcb, ran>>
    /\ UNCHANGED <<anc, unwinding, node, wstk, wlog, exits>>
    /\ UNCHANGED spawned
    /\ UNCHANGED kills

\* The assertion last_generation > nobe.generation of iterate.
GenerationFault(t, n) ==
    IF wstk[t] # <<>> /\ ~(node[Last(wstk[t]).n].generation > node[n].generation)
    THEN {"generation"} ELSE {}

\* One visit of iterate: lock the node, run forward_blk on its parent group
\* unless the group is dead, and go on to the tail or return.
\* forward_blk is enlist-as-descendant in enlist_many and
\* leave-as-descendant in the TCB's destructor.
WalkDown(t) ==
    /\ UNCHANGED others
    /\ UNCHANGED trying
    /\ pc[t] \in {"enl_walk", "td_walk"}
    /\ LET n == CurPtr(t)
           g == node[n].parent_group
           enl == pc[t] = "enl_walk"
           dead == tg[g].some /\ taskgroup_is_dead(tg[g])
           cont == dead \/ (IF enl THEN enlist_result(tg[g]) ELSE TRUE)
           tg1 == IF dead THEN tg[g]
                  ELSE IF enl THEN enlist_in_taskgroup(tg[g], t, FALSE)
                  ELSE leave_taskgroup(tg[g], t, FALSE)
           s1 == IF cont THEN Append(wstk[t], [n |-> n, dead |-> dead]) ELSE wstk[t]
           more == cont /\ node[n].ancestors # NoNode
           r == IF more THEN [nd |-> node, h |-> anc[t], s |-> s1]
                ELSE Ascend(node, anc[t], s1, ~cont, enl)
           done == r.s = <<>>
           base == IF wstk[t] = <<>> THEN NoWalk ELSE wlog[t]
           visit == [n |-> n, some |-> tg[g].some, empty |-> tg[g].members = {},
                     fwd |-> IF dead THEN "skipped" ELSE IF cont THEN "true" ELSE "false"]
       IN /\ ~Locked(n)
          /\ wlog' = [wlog EXCEPT ![t] =
                        [vis |-> Append(base.vis, visit),
                         bail |-> base.bail,
                         ret |-> IF ~done THEN "none" ELSE IF cont THEN "true" ELSE "false",
                         after |-> IF done THEN ChainSeqOf(r.nd, r.h) ELSE <<>>]]
          /\ tg' = [tg EXCEPT ![g] = tg1]
          /\ fault' = fault \cup GenerationFault(t, n)
                        \cup (IF dead THEN {}
                              ELSE IF enl THEN InsertFault(tg[g], t, FALSE)
                              ELSE RemoveFault(tg[g], t, FALSE))
          /\ enlfail' = IF cont THEN enlfail ELSE enlfail \cup {t}
          /\ node' = r.nd
          /\ anc' = [anc EXCEPT ![t] = r.h]
          /\ wstk' = [wstk EXCEPT ![t] = r.s]
          /\ pc' = [pc EXCEPT ![t] =
                      IF ~done THEN (IF more THEN pc[t] ELSE "enl_bail")
                      ELSE IF ~enl THEN "notify"
                      ELSE IF cont THEN "run" ELSE "enl_leave"]
          /\ IF done /\ enl /\ cont
             THEN EnterBody(t)
             ELSE UNCHANGED <<nfailed, has_tcb, ran>>
    /\ UNCHANGED <<unwinding, exits>>
    /\ UNCHANGED spawned
    /\ UNCHANGED kills

\* Step 3 of iterate in enlist_many's walk: bail_blk (leave as descendant) on
\* a node forward_blk ran on, then return to the caller.
WalkBail(t) ==
    /\ UNCHANGED others
    /\ UNCHANGED trying
    /\ pc[t] = "enl_bail"
    /\ LET f == Last(wstk[t])
           g == node[f.n].parent_group
           r == Ascend(node, anc[t], Front(wstk[t]), TRUE, TRUE)
       IN /\ tg' = [tg EXCEPT ![g] = leave_taskgroup(tg[g], t, FALSE)]
          /\ fault' = fault \cup RemoveFault(tg[g], t, FALSE)
          /\ node' = r.nd
          /\ anc' = [anc EXCEPT ![t] = r.h]
          /\ wstk' = [wstk EXCEPT ![t] = r.s]
          /\ pc' = [pc EXCEPT ![t] = IF r.s = <<>> THEN "enl_leave" ELSE "enl_bail"]
          /\ wlog' = [wlog EXCEPT ![t] =
                        [@ EXCEPT !.bail = Append(@, f.n),
                                  !.ret = IF r.s = <<>> THEN "false" ELSE "none",
                                  !.after = IF r.s = <<>> THEN ChainSeqOf(r.nd, r.h)
                                            ELSE <<>>]]
    /\ UNCHANGED <<has_tcb, unwinding, nfailed, ran, exits, enlfail>>
    /\ UNCHANGED spawned
    /\ UNCHANGED kills

\* enlist_many, last part: an ancestor's enlistment failed, leave the own group.
EnlistLeave(t) ==
    /\ UNCHANGED others
    /\ UNCHANGED trying
    /\ pc[t] = "enl_leave"
    /\ LET g == tasks[t]
       IN /\ tg' = [tg EXCEPT ![g] = leave_taskgroup(tg[g], t, TRUE)]
          /\ fault' = fault \cup RemoveFault(tg[g], t, TRUE)
    /\ pc' = [pc EXCEPT ![t] = "notify"]
    /\ UNCHANGED <<anc, has_tcb, unwinding, nfailed, ran, node, wstk, wlog, exits, enlfail>>
    /\ UNCHANGED spawned
    /\ UNCHANGED kills

----------------------------------------------------------------------------
\* The body of a task.

\* A task whose notifier is dropped without the TCB's destructor having run.
AfterBody_notifier_first(t) == IF has_tcb[t] THEN "notify" ELSE "done"

\* A task that is over as soon as its body is, its TCB never being dropped.
AfterBody_without_teardown(t) == "done"

\* Where a task goes when its body is over: the TLS cleanup drops its TCB, if
\* it has one (the main task has none before its first spawn).
AfterBody(t) == IF has_tcb[t] THEN "td_own" ELSE "done"

\* yield(): fails when the task has been killed and is not failing already.
\* (A task blocked in a receive yields too.)
Yield(t) ==
    /\ UNCHANGED others
    /\ UNCHANGED trying
    /\ pc[t] = "run"
    /\ IF killed[t] /\ ~unwinding[t]
       THEN /\ unwinding' = [unwinding EXCEPT ![t] = TRUE]
            /\ pc' = [pc EXCEPT ![t] = AfterBody(t)]
       ELSE UNCHANGED <<unwinding, pc>>
    /\ UNCHANGED <<anc, has_tcb, nfailed, ran, tg, node, wstk, wlog, exits, enlfail, fault>>
    /\ UNCHANGED spawned
    /\ UNCHANGED kills

\* fail: the body fails by itself.
Fail(t) ==
    /\ UNCHANGED others
    /\ UNCHANGED trying
    /\ pc[t] = "run"
    /\ ~Blocked(t)
    /\ unwinding' = [unwinding EXCEPT ![t] = TRUE]
    /\ pc' = [pc EXCEPT ![t] = AfterBody(t)]
    /\ UNCHANGED <<anc, has_tcb, nfailed, ran, tg, node, wstk, wlog, exits, enlfail, fault>>
    /\ UNCHANGED spawned
    /\ UNCHANGED kills

\* The body returns.
Return(t) ==
    /\ UNCHANGED others
    /\ UNCHANGED trying
    /\ pc[t] = "run"
    /\ ~Blocked(t)
    /\ pc' = [pc EXCEPT ![t] = AfterBody(t)]
    /\ UNCHANGED <<anc, has_tcb, unwinding, nfailed, ran, tg, node, wstk, wlog, exits,
                   enlfail, fault>>
    /\ UNCHANGED spawned
    /\ UNCHANGED kills

----------------------------------------------------------------------------
\* TCB teardown and the notifier.

\* The first half of TCB's destructor: kill the own group when unwinding,
\* leave it otherwise.
TdOwn(t) ==
    /\ UNCHANGED others
    /\ UNCHANGED trying
    /\ pc[t] = "td_own"
    /\ LET g == tasks[t]
           st == tg[g]
           targets == IF unwinding[t] THEN kill_targets(st, t) ELSE {}
           doall == unwinding[t] /\ kill_does_all(st, is_main[t])
           all == IF doall THEN kill_all_targets(t) ELSE {}
       IN /\ tg' = [tg EXCEPT ![g] = IF unwinding[t] THEN kill_taskgroup(st)
                                     ELSE leave_taskgroup(st, t, TRUE)]
          /\ nfailed' = [nfailed EXCEPT ![t] =
                            IF opts[t].notify /\ unwinding[t] THEN TRUE ELSE nfailed[t]]
          /\ killed' = [x \in Tasks |-> killed[x] \/ x \in targets \/ x \in all]
          /\ sig' = sig \cup {<<t, x>> : x \in targets}
          /\ killall' = IF doall THEN killall \cup {t} ELSE killall
          /\ allsig' = allsig \cup {<<t, x>> : x \in all}
          /\ freed' = freed \cup {x \in targets : pc[x] = "done"}
          /\ failedby' = IF unwinding[t] /\ st.some
                         THEN failedby \cup {<<t, g>>} ELSE failedby
          /\ fault' = fault \cup (IF unwinding[t] THEN KillFault(st, t)
                                  ELSE RemoveFault(st, t, TRUE))
    /\ pc' = [pc EXCEPT ![t] = IF anc[t] = NoNode THEN "notify" ELSE "td_walk"]
    /\ UNCHANGED <<anc, has_tcb, unwinding, ran, node, wstk, wlog, exits, enlfail>>
    /\ UNCHANGED spawned

\* AutoNotify's destructor: send Exit(task, result); the task is then over.
Notify(t) ==
    /\ UNCHANGED others
    /\ UNCHANGED trying
    /\ pc[t] = "notify"
    /\ exits' = [exits EXCEPT ![t] =
                    IF opts[t].notify
                    THEN Append(exits[t], IF nfailed[t] THEN "Failure" ELSE "Success")
                    ELSE exits[t]]
    /\ pc' = [pc EXCEPT ![t] = "done"]
    /\ UNCHANGED <<anc, has_tcb, unwinding, nfailed, ran, tg, node, wstk, wlog, enlfail, fault>>
    /\ UNCHANGED spawned
    /\ UNCHANGED kills

\* Fewer than MaxOptTasks tasks exist (tasks are created in order).
Room == \E c \in 0 .. (MaxOptTasks - 1) : pc[c] = "unborn"

\* A spawn that is not part of a try.
SpawnRaw(p, l, s, nf) == Room /\ Spawn(p, l, s, nf) /\ UNCHANGED trying

\* task().supervised().spawn(f): unlinked, supervised, no notification.
SpawnSupervised(p) == Spawn(p, FALSE, TRUE, FALSE) /\ UNCHANGED trying

----------------------------------------------------------------------------
\* try.

\* The task that the next spawn_raw creates.
NextChild == CHOOSE c \in Tasks : pc[c] = "unborn" /\ \A d \in Tasks : d < c => pc[d] # "unborn"

\* The options the free function try spawns with: task().supervised().try(f).
try_opts == builder_try(TaskBuilder_supervised(new_builder).out).raw

\* A try that maps every exit to Ok.
try_result_always_ok(result) == "ok"

\* match future::get(..) { Success => Ok(comm::recv(po)), Failure => Err(()) }
try_result(result) == IF result = "Success" THEN "ok" ELSE "err"

\* try(f), first half: spawn the child and block on the future.
Try(p) ==
    /\ Room
    /\ Spawn(p, try_opts.linked, try_opts.supervised, try_opts.notify)
    /\ trychild' = [trychild EXCEPT ![p] = NextChild]
    /\ tryres' = [tryres EXCEPT ![p] = "wait"]

\* try(f), second half: the child's Exit message arrived.
TryRecv(p) ==
    /\ UNCHANGED others
    /\ pc[p] = "run"
    /\ Blocked(p)
    /\ exits[trychild[p]] # <<>>
    /\ tryres' = [tryres EXCEPT ![p] = try_result(exits[trychild[p]][1])]
    /\ UNCHANGED <<pc, anc, has_tcb, unwinding, nfailed, ran, tg, node, wstk, wlog, exits,
                   enlfail, fault, trychild>>
    /\ UNCHANGED spawned
    /\ UNCHANGED kills

----------------------------------------------------------------------------
Next ==
    \/ \E p \in Tasks, l \in BOOLEAN, s \in BOOLEAN, nf \in BOOLEAN : SpawnRaw(p, l, s, nf)
    \/ \E t \in Tasks : EnlistOwn(t)
    \/ \E t \in Tasks : WalkDown(t)
    \/ \E t \in Tasks : WalkBail(t)
    \/ \E t \in Tasks : EnlistLeave(t)
    \/ \E t \in Tasks : Yield(t)
    \/ \E t \in Tasks : Fail(t)
    \/ \E t \in Tasks : Return(t)
    \/ \E t \in Tasks : TdOwn(t)
    \/ \E t \in Tasks : Notify(t)
    \/ \E t \in Tasks : Try(t)
    \/ \E t \in Tasks : TryRecv(t)

Spec == Init /\ [][Next]_vars

\* Chains of supervised tasks: every spawn is task().supervised().spawn(f),
\* and the first task is not the main task.
ChainNext ==
    \/ \E p \in Tasks : SpawnSupervised(p)
    \/ \E t \in Tasks : EnlistOwn(t)
    \/ \E t \in Tasks : WalkDown(t)
    \/ \E t \in Tasks : WalkBail(t)
    \/ \E t \in Tasks : EnlistLeave(t)
    \/ \E t \in Tasks : Yield(t)
    \/ \E t \in Tasks : Fail(t)
    \/ \E t \in Tasks : Return(t)
    \/ \E t \in Tasks : TdOwn(t)
    \/ \E t \in Tasks : Notify(t)

ChainInit == InitRoot(FALSE) /\ BuilderIdle /\ LocalIdle /\ GuardIdle /\ LockIdle /\ SetsIdle

SpecChain == ChainInit /\ [][ChainNext]_vars

\* One task that creates, configures and uses builders; nothing else runs.
BuilderInit == InitRoot(TRUE) /\ BuilderIdle /\ LocalIdle /\ GuardIdle /\ LockIdle /\ SetsIdle

SpecBuilder == BuilderInit /\ [][BuilderNext]_vars

\* Tasks that use task-local data, spawn and exit; no failure is propagated.
LocalInit == InitRoot(TRUE) /\ BuilderIdle /\ LocalIdle /\ GuardIdle /\ LockIdle /\ SetsIdle

SpecLocal == LocalInit /\ [][LocalNext]_vars

\* One task that nests guards, yields, spawns and may be killed at any time.
GuardInit == InitRoot(TRUE) /\ BuilderIdle /\ LocalIdle /\ GuardIdle /\ LockIdle /\ SetsIdle

SpecGuard == GuardInit /\ [][GuardNext]_vars

\* Tasks that enlist, tear down and spawn over one list of ancestor nodes.
LockInit == InitRoot(TRUE) /\ BuilderIdle /\ LocalIdle /\ GuardIdle /\ LockIdle /\ SetsIdle

SpecLock == LockInit /\ [][LockNext]_vars

\* A task that has started an operation goes on to its next step, and gets
\* a lock that is free again and again.
LockFair(t) ==
    /\ SF_vars(KGenLock(t))
    /\ WF_vars(KGenRun(t))
    /\ SF_vars(KOwnLock(t))
    /\ WF_vars(\E ok \in BOOLEAN : KOwnRun(t, ok))
    /\ SF_vars(KLockNode(t))
    /\ SF_vars(KLockGroup(t))
    /\ WF_vars(\E dead \in BOOLEAN, ok \in BOOLEAN : KForward(t, dead, ok))
    /\ WF_vars(KBail(t))
    /\ WF_vars(KReturn(t))

SpecLockFair == SpecLock /\ \A t \in LockTasks : LockFair(t)

----------------------------------------------------------------------------
\* The operations of a taskgroup, called under its lock with any task token
\* and any is_member on the group of the first task.

\* access_group(g, |tg| enlist_in_taskgroup(tg, t, is_member)).
SetsEnlist(t, is_member) ==
    /\ called' = [op |-> "enlist", me |-> t, is_member |-> is_member]
    /\ tg' = [tg EXCEPT ![Root] = enlist_in_taskgroup(tg[Root], t, is_member)]
    /\ fault' = fault \cup InsertFault(tg[Root], t, is_member)
    /\ UNCHANGED <<pc, anc, has_tcb, unwinding, nfailed, ran, node, wstk, wlog, exits,
                   enlfail>>
    /\ UNCHANGED <<spawned, kills, trying, buildervars, tlsvars, guardvars, lockvars>>

\* access_group(g, |tg| leave_taskgroup(tg, t, is_member)).
SetsLeave(t, is_member) ==
    /\ called' = [op |-> "leave", me |-> t, is_member |-> is_member]
    /\ tg' = [tg EXCEPT ![Root] = leave_taskgroup(tg[Root], t, is_member)]
    /\ fault' = fault \cup RemoveFault(tg[Root], t, is_member)
    /\ UNCHANGED <<pc, anc, has_tcb, unwinding, nfailed, ran, node, wstk, wlog, exits,
                   enlfail>>
    /\ UNCHANGED <<spawned, kills, trying, buildervars, tlsvars, guardvars, lockvars>>

\* access_group(g, |tg| kill_taskgroup(tg, t, is_main)).
SetsKill(t) ==
    /\ called' = [op |-> "kill", me |-> t, is_member |-> TRUE]
    /\ LET st == tg[Root]
           targets == kill_targets(st, t)
           doall == kill_does_all(st, is_main[t])
           all == IF doall THEN kill_all_targets(t) ELSE {}
       IN /\ tg' = [tg EXCEPT ![Root] = kill_taskgroup(st)]
          /\ killed' = [x \in Tasks |-> killed[x] \/ x \in targets \/ x \in all]
          /\ sig' = sig \cup {<<t, x>> : x \in targets}
          /\ killall' = IF doall THEN killall \cup {t} ELSE killall
          /\ allsig' = allsig \cup {<<t, x>> : x \in all}
          /\ failedby' = IF st.some THEN failedby \cup {<<t, Root>>} ELSE failedby
          /\ fault' = fault \cup KillFault(st, t)
    /\ UNCHANGED <<pc, anc, has_tcb, unwinding, nfailed, ran, node, wstk, wlog, exits,
                   enlfail, freed>>
    /\ UNCHANGED <<spawned, trying, buildervars, tlsvars, guardvars, lockvars>>

SetsNext ==
    \/ \E t \in Tasks, is_member \in BOOLEAN : SetsEnlist(t, is_member)
    \/ \E t \in Tasks, is_member \in BOOLEAN : SetsLeave(t, is_member)
    \/ \E t \in Tasks : SetsKill(t)

SetsInit == InitRoot(FALSE) /\ BuilderIdle /\ LocalIdle /\ GuardIdle /\ LockIdle /\ SetsIdle

SpecSets == SetsInit /\ [][SetsNext]_vars

----------------------------------------------------------------------------
\* Vocabulary of the properties.

Born(t) == pc[t] # "unborn"

Spawned(t) == Born(t) /\ t # Root

LinkedChild(c) == Spawned(c) /\ opts[c].linked

SupervisedChild(c) == Spawned(c) /\ ~opts[c].linked /\ opts[c].supervised

UnlinkedChild(c) == Spawned(c) /\ ~opts[c].linked /\ ~opts[c].supervised

\* The task failed and its destructor is past kill_taskgroup.
KillDone(t) == unwinding[t] /\ has_tcb[t] /\ pc[t] \in {"td_walk", "notify", "done"}

\* The task is past the first half of its destructor (or never got a TCB).
PastOwn(t) == pc[t] \in {"td_walk", "notify", "done"}

\* Some task called rust_task_kill_other on t.
Signalled(t) == \E f \in Tasks : <<f, t>> \in sig

InNoSet(t) == \A g \in Groups : t \notin tg[g].members /\ t \notin tg[g].descendants

\* The nodes of a list, from its head.
RECURSIVE Chain(_)
Chain(n) == IF n = NoNode THEN {} ELSE {n} \cup Chain(node[n].ancestors)

\* x was spawned supervised by a task of group g, or by a task that was.
RECURSIVE SupervisedUnder(_, _)
SupervisedUnder(x, g) ==
    /\ SupervisedChild(x)
    /\ \/ tasks[parent[x]] = g
       \/ SupervisedUnder(parent[x], g)

----------------------------------------------------------------------------
\* C1: linked failure is bidirectional.  For a child spawned linked: once the
\* failed child is past kill_taskgroup, its parent has been sent a kill signal
\* (its kill flag is set), unless the parent was failing itself or had left
\* the group; once the failed parent is past kill_taskgroup, a child that ever
\* ran its body has been sent a kill signal, unless it was failing itself or
\* had left the group (so a child that had not enlisted never runs its body);
\* and a yield of a task whose kill flag is set fails the task.
C1_Inv ==
    \A c \in Tasks : LinkedChild(c) =>
        LET p == parent[c] IN
        /\ KillDone(c) => (Signalled(p) /\ killed[p]) \/ unwinding[p] \/ PastOwn(p)
        /\ KillDone(p) => ~ran[c] \/ (Signalled(c) /\ killed[c]) \/ unwinding[c] \/ PastOwn(c)

C1_YieldFails ==
    \A t \in Tasks : (Yield(t) /\ killed[t]) => unwinding'[t]

----------------------------------------------------------------------------
----------------------------------------------------------------------------
\* C3 as claimed: for a child spawned unlinked and unsupervised, the parent's
\* failure causes no kill signal to the child, nor the child's failure one to
\* the parent, and the two share no taskgroup and no ancestor node.
C3_Claimed ==
    \A c \in Tasks : UnlinkedChild(c) =>
        LET p == parent[c] IN
        /\ <<p, c>> \notin sig /\ <<p, c>> \notin allsig
        /\ <<c, p>> \notin sig /\ <<c, p>> \notin allsig
        /\ tasks[c] # tasks[p]
        /\ Chain(anc[c]) \cap Chain(anc[p]) = {}

\* C3 as amended: the kill signals of kill_taskgroup's walk over members and
\* descendants never pass between an unlinked, unsupervised child and its
\* parent, nor from the parent to the child's own unlinked children; they
\* share no taskgroup, and the child has no ancestor node.  The child gets a
\* kill signal from its parent's failure only through rust_task_kill_all,
\* which only a parent with is_main set calls; the child never calls it.
C3_UnlinkedIsolated ==
    \A c \in Tasks : UnlinkedChild(c) =>
        LET p == parent[c] IN
        /\ <<p, c>> \notin sig
        /\ <<c, p>> \notin sig
        /\ <<p, c>> \in allsig => is_main[p]
        /\ c \notin killall
        /\ tasks[c] # tasks[p]
        /\ anc[c] = NoNode
        /\ \A d \in Tasks : (UnlinkedChild(d) /\ parent[d] = c) => <<p, d>> \notin sig

\* Both directions happened without a signal: an unlinked child of a task that
\* is not main is running unkilled after its parent failed, and that parent's
\* own parent is unkilled too.
C3_Witness ==
    \E c \in Tasks :
        /\ UnlinkedChild(c) /\ UnlinkedChild(parent[c])
        /\ KillDone(parent[c]) /\ pc[c] = "run" /\ ~killed[c]
        /\ pc[parent[parent[c]]] = "run" /\ ~killed[parent[parent[c]]]

----------------------------------------------------------------------------
\* C4: supervision is transitive across exited intermediates.  When r spawned
\* m supervised and m spawned g supervised, once the failed r is past
\* kill_taskgroup, g, if it is running its body, has been sent a kill signal.
C4_TransitiveSupervision ==
    \A g \in Tasks : (SupervisedChild(g) /\ SupervisedChild(parent[g])) =>
        LET r == parent[parent[g]] IN
        (KillDone(r) /\ pc[g] = "run") => (Signalled(g) /\ killed[g])

\* The intermediate task had returned and was over, unkilled, and its group
\* dead, when the grandparent failed and signalled the running grandchild.
C4_Witness ==
    \E g \in Tasks :
        /\ SupervisedChild(g) /\ SupervisedChild(parent[g])
        /\ pc[parent[g]] = "done" /\ ~unwinding[parent[g]] /\ ~killed[parent[g]]
        /\ <<parent[parent[g]], g>> \in sig
        /\ pc[g] = "run"

----------------------------------------------------------------------------
\* C5 as claimed: sibling reachability.  Once a failed member f of a taskgroup
\* is past kill_taskgroup, every other task that is running its body and is
\* a member of that group, or was spawned supervised (directly or
\* transitively) by a task of that group, has its kill flag set.
C5_Claimed ==
    \A f, x \in Tasks :
        ( /\ KillDone(f) /\ x # f /\ pc[x] = "run"
          /\ Spawned(x)
          /\ (tasks[x] = tasks[f] \/ SupervisedUnder(x, tasks[f])) )
        => killed[x]

----------------------------------------------------------------------------
\* C6: enlistment atomicity on failure.  A task one of whose
\* enlist_in_taskgroup calls returned false (its own group or a group on its
\* ancestor list was failing) never runs its body, and once enlist_many has
\* returned it is in no members set and in no descendants set.
C6_EnlistmentAtomicity ==
    \A t \in Tasks : t \in enlfail =>
        /\ ~ran[t]
        /\ pc[t] \in {"enl_bail", "enl_leave", "notify", "done"}
        /\ pc[t] \in {"notify", "done"} => InNoSet(t)

\* A task had enlisted in its own group and in a first ancestor group, found
\* the second ancestor group failing, and has undone both insertions while
\* both groups are still there.
C6_Witness ==
    \E t \in Tasks :
        /\ t \in enlfail /\ pc[t] = "notify"
        /\ tg[tasks[t]].some
        /\ SupervisedChild(t) /\ tg[tasks[parent[t]]].some
        /\ tg[tasks[parent[t]]].members # {}
        /\ InNoSet(t)

----------------------------------------------------------------------------
\* The task's body is running or has just ended, its destructor not begun.
Enlisted(t) == Born(t) /\ has_tcb[t] /\ pc[t] \in {"run", "td_own"}

\* C7 as claimed: between the end of its enlistment and the start of its
\* teardown, a task is a member of its own group and a descendant of every
\* group on its ancestor list, or it is in no set at all.
C7_Claimed ==
    \A t \in Tasks :
        /\ Enlisted(t) =>
             \/ /\ t \in tg[tasks[t]].members
                /\ \A n \in Chain(anc[t]) : t \in tg[node[n].parent_group].descendants
             \/ InNoSet(t)
        /\ (pc[t] = "notify" /\ ~ran[t]) => InNoSet(t)

\* C7 as amended: a failing group has dropped its sets, so the task is a
\* member of its own group unless that group is failing, and a descendant of
\* every group on its ancestor list that is not failing; a task whose
\* enlistment failed is in no set.
C7_AllOrNothing ==
    \A t \in Tasks :
        /\ Enlisted(t) =>
             /\ tg[tasks[t]].some => t \in tg[tasks[t]].members
             /\ \A n \in Chain(anc[t]) :
                   tg[node[n].parent_group].some
                       => t \in tg[node[n].parent_group].descendants
        /\ (pc[t] = "notify" /\ ~ran[t]) => InNoSet(t)

\* A running task with two live ancestor groups, in both descendants sets.
C7_Witness ==
    \E t \in Tasks :
        /\ Enlisted(t) /\ t \in tg[tasks[t]].members
        /\ Cardinality(Chain(anc[t])) = 2
        /\ \A n \in Chain(anc[t]) : t \in tg[node[n].parent_group].descendants

----------------------------------------------------------------------------
\* C8: notifier exactly-once.  A task spawned with a notify channel has sent
\* nothing on it before it is over and exactly one Exit when it is over, on
\* every path; the result is Success exactly when enlistment succeeded (the
\* body was called) and the task was not unwinding, Failure otherwise.  A
\* task spawned without a notify channel sends nothing.
C8_NotifierExactlyOnce ==
    \A t \in Tasks :
        /\ opts[t].notify =>
             /\ pc[t] # "done" => exits[t] = <<>>
             /\ pc[t] = "done" =>
                  /\ Len(exits[t]) = 1
                  /\ exits[t][1] = "Success" <=> (ran[t] /\ ~unwinding[t])
                  /\ exits[t][1] = "Failure" <=> (~ran[t] \/ unwinding[t])
        /\ ~opts[t].notify => exits[t] = <<>>

\* All three paths at once is not possible with so few tasks; this state has
\* a Success of a task that was sent a kill signal and returned without
\* yielding, next to a Failure of a task whose enlistment failed.
C8_Witness ==
    \E t, u \in Tasks :
        /\ exits[t] = <<"Success">> /\ killed[t]
        /\ exits[u] = <<"Failure">> /\ u \in enlfail

----------------------------------------------------------------------------
\* C9: notification ordering.  When a task's Exit has been sent, its body is
\* neither running nor still to run, the task holds no ancestor node, and, if
\* its body was called, the first half of its destructor is done: its own
\* group is failing if it was unwinding, and does not have it as a member
\* otherwise.  Success is only sent for a task whose body was called and
\* that was not unwinding.
C9_NotificationOrdering ==
    \A t \in Tasks : exits[t] # <<>> =>
        /\ pc[t] = "done"
        /\ wstk[t] = <<>>
        /\ t \notin tg[tasks[t]].members
        /\ (ran[t] /\ unwinding[t]) => ~tg[tasks[t]].some
        /\ exits[t][1] = "Success" => (ran[t] /\ ~unwinding[t])

\* A Success was sent by a task that had walked an ancestor list in its
\* teardown, while its own group and its parent's group are still there.
C9_Witness ==
    \E t \in Tasks :
        /\ exits[t] = <<"Success">>
        /\ SupervisedChild(t)
        /\ tg[tasks[t]].some /\ tg[tasks[parent[t]]].some
        /\ tg[tasks[parent[t]]].members # {}
        /\ InNoSet(t)

----------------------------------------------------------------------------
\* C10: failing is permanent.  In every step, a taskgroup whose slot is
\* cleared keeps it cleared, with nothing inserted; a task that enlists as a
\* member of such a group goes on to its notifier without running its body,
\* and a task that visits such a group on its enlistment walk does not go on
\* to its body either.
C10_Step ==
    /\ \A g \in Groups : ~tg[g].some => tg'[g] = tg[g]
    /\ \A t \in Tasks :
         (pc[t] = "start" /\ ~tg[tasks[t]].some) => pc'[t] \in {"start", "notify"}
    /\ \A t \in Tasks :
         (pc[t] = "enl_walk" /\ ~tg[node[CurPtr(t)].parent_group].some)
             => pc'[t] \in {"enl_walk", "enl_bail", "enl_leave"}

\* C10: failing is permanent (every step satisfies C10_Step).
C10_FailingIsPermanent == [][C10_Step]_vars

\* A failing group has been the target of an enlist as member by a task that
\* started late, and of a kill_taskgroup by a member that had been signalled
\* and failed at a yield; the slot is still cleared.
C10_Witness ==
    \E g \in Groups :
        /\ ~tg[g].some
        /\ \E t \in Tasks : t \in enlfail /\ tasks[t] = g /\ pc[t] = "done"
        /\ \E u \in Tasks : /\ tasks[u] = g /\ Signalled(u) /\ KillDone(u)
                            /\ <<u, g>> \notin failedby

----------------------------------------------------------------------------
\* C11: main failure is process-wide.  Once a task with is_main set (the main
\* task with its TCB, or a task linked into its group) has failed and is past
\* kill_taskgroup, rust_task_kill_all has been called; the step that calls it
\* kills every other task that exists, unlinked ones included; and only a
\* task of the main task's group ever calls it.
C11_Inv ==
    /\ \A t \in Tasks : (KillDone(t) /\ is_main[t]) => killall # {}
    /\ \A t \in killall : is_main[t] /\ is_main[Root] /\ tasks[t] = tasks[Root]

C11_KillAllStep ==
    \A t \in Tasks : (t \notin killall /\ t \in killall') =>
        \A x \in Tasks \ {t} : pc[x] \notin {"unborn", "done"} => killed'[x]

\* C11: main failure is process-wide (the invariant and the kill-all step above).
C11_MainFailureProcessWide == [](C11_Inv) /\ [][C11_KillAllStep]_vars

\* The main task failed with its TCB and called kill-all, which reached an
\* unlinked child; that child then failed and called no kill-all of its own.
C11_Witness ==
    \E c \in Tasks :
        /\ UnlinkedChild(c) /\ parent[c] = Root
        /\ KillDone(Root) /\ killall = {Root}
        /\ <<Root, c>> \in allsig
        /\ KillDone(c)

----------------------------------------------------------------------------
\* C12: builders are single-use.  Every call of a configuration method or of
\* a terminal operation on a builder value that was used before has failed
\* the caller, and no spawn_raw was ever reached from such a call.
C12_BuildersSingleUse ==
    /\ bhist.reused # {} => bfail
    /\ \A e \in braw : ~e.reuse
    /\ ~bfail => \A i \in BuilderIds : bhist.state[i] = "used" => bld[i].consumed

\* A builder was configured once, and then spawn was called on it.
C12_Witness ==
    \E i \in BuilderIds :
        /\ <<i, "spawn">> \in bhist.reused
        /\ \E j \in BuilderIds : bhist.state[j] # "free" /\ bhist.from[j] \in ConfigMethods
        /\ bfail

----------------------------------------------------------------------------
\* C13: a chain of linkage methods that ends with unlinked() decouples child
\* and parent.  For every such chain, a child spawned with the options the
\* chain's builder holds gets no kill signal from its parent's kill_taskgroup
\* and sends none to its parent.
UnlinkedLast(ch) == ch # <<>> /\ ch[Len(ch)] = "unlinked"

C13_Claimed ==
    \A ch \in Chains : UnlinkedLast(ch) =>
        \A c \in Tasks :
            (/\ Spawned(c)
             /\ opts[c].linked = builder_spawn(chain_builder(ch)).raw.linked
             /\ opts[c].supervised = builder_spawn(chain_builder(ch)).raw.supervised)
            => (<<parent[c], c>> \notin sig /\ <<c, parent[c]>> \notin sig)

----------------------------------------------------------------------------
\* C14: a builder carries at most one notify endpoint.  Every future_result
\* or try on a builder whose chain already holds a future_result has failed
\* the caller, and no spawn_raw was reached from such a try.
C14_OneNotifyEndpoint ==
    /\ bhist.dup # {} => bfail
    /\ \A e \in braw : ~e.dup
    /\ \A i \in BuilderIds :
          (bhist.state[i] = "fresh" /\ bhist.future[i]) => bld[i].opts.notify

\* future_result was called on a builder that unlinked() returned, further
\* down a chain that had a future_result before.
C14_Witness ==
    \E i \in BuilderIds :
        /\ <<i, "future_result">> \in bhist.dup
        /\ bhist.from[i] = "unlinked"
        /\ <<i, "future_result">> \notin bhist.reused
        /\ bfail

----------------------------------------------------------------------------
\* C15: try returns Ok exactly when the child's body ran to completion and
\* Err when it failed (or was never run); a failing child of a try sends no
\* kill signal to the caller, calls no kill-all, and does not clear the slot
\* of the caller's taskgroup.
TryReturned(p) == tryres[p] \in {"ok", "err"}

C15_TryResult ==
    \A p \in Tasks : tryres[p] # "none" =>
        LET c == trychild[p] IN
        /\ SupervisedChild(c) /\ parent[c] = p /\ opts[c].notify
        /\ TryReturned(p) => (tryres[p] = "ok" <=> (ran[c] /\ ~unwinding[c]))
        /\ (TryReturned(p) /\ unwinding[c]) => tryres[p] = "err"
        /\ unwinding[c] =>
              /\ <<c, p>> \notin sig
              /\ <<c, p>> \notin allsig
              /\ c \notin killall
              /\ <<c, tasks[p]>> \notin failedby

\* A try returned Err for a child whose body ran and failed; the caller runs
\* on, unkilled, in a taskgroup that is not failing.
C15_Witness ==
    \E p \in Tasks :
        /\ tryres[p] = "err"
        /\ ran[trychild[p]] /\ unwinding[trychild[p]]
        /\ pc[p] = "run" /\ ~killed[p]
        /\ has_tcb[p] /\ tg[tasks[p]].some

----------------------------------------------------------------------------
\* Task-local data: what a get of key on map returns (0: None).
StoredData(map, key) == local_get_helper(map, key, FALSE).ret.data

Holes(map) == {i \in DOMAIN map : map[i] = NoEntry}

\* C16: TLS round-trip.  On the map of every task, in every state, for every
\* key and data: after set, get returns the data and leaves the map as it is,
\* a second get returns it again, the next pop returns it, and a pop or a get
\* after that returns None.
C16_TLSRoundTrip ==
    \A t \in LocalTasks, k \in UserKeys, d \in UserData :
        LET s1 == local_set(tls_map[t], [key |-> k, data |-> d, ref |-> nref + 1]).map
            g1 == local_get_helper(s1, k, FALSE)
            g2 == local_get_helper(g1.map, k, FALSE)
            p1 == local_get_helper(g2.map, k, TRUE)
            p2 == local_get_helper(p1.map, k, TRUE)
            g3 == local_get_helper(p1.map, k, FALSE)
        IN /\ g1.ret.data = d /\ g1.map = s1
           /\ g2.ret.data = d /\ g2.map = s1
           /\ p1.ret.data = d
           /\ p2.ret = NoEntry
           /\ g3.ret = NoEntry

\* A task popped a value that had overwritten an earlier one under the same
\* key; the key is now absent, an empty slot lies before another key's entry.
C16_Witness ==
    \E t \in LocalTasks, k \in UserKeys :
        /\ lret[t].op = "pop" /\ lret[t].key = k /\ lret[t].val.data = 2
        /\ \E r \in Refs : released[r] = 1 /\ owner[r] = t
        /\ local_data_lookup(tls_map[t], k) = 0
        /\ \E i, j \in DOMAIN tls_map[t] :
              i < j /\ tls_map[t][i] = NoEntry /\ tls_map[t][j].key \in UserKeys \ {k}

----------------------------------------------------------------------------
\* C17: TLS keys are unique.  Every map holds at most one entry per key; a
\* set on a key with an entry replaces that entry in place and drops the old
\* reference; a set on a key without entry fills the first empty slot, or
\* appends when there is none; no other key's entry changes.
C17_TLSKeysUnique ==
    \A t \in LocalTasks :
        LET m == tls_map[t] IN
        /\ \A k \in Keys : Cardinality({i \in DOMAIN m : m[i].key = k}) <= 1
        /\ \A k \in UserKeys, d \in UserData :
             LET e == [key |-> k, data |-> d, ref |-> nref + 1]
                 r == local_set(m, e)
                 at == {i \in DOMAIN m : m[i].key = k}
             IN /\ \A i \in at : r.map = [m EXCEPT ![i] = e] /\ r.old = m[i].ref /\ r.old # 0
                /\ (at = {} /\ Holes(m) # {}) =>
                      /\ r.old = 0
                      /\ \E j \in Holes(m) : /\ \A h \in Holes(m) : j <= h
                                             /\ r.map = [m EXCEPT ![j] = e]
                /\ (at = {} /\ Holes(m) = {}) => (r.map = Append(m, e) /\ r.old = 0)
                /\ \A k2 \in Keys \ {k} : StoredData(r.map, k2) = StoredData(m, k2)

\* After three sets and one pop, and no overwrite, the task's map has two
\* slots, both full: the latest set went into the slot the pop had emptied.
C17_Witness ==
    \E t \in LocalTasks :
        /\ nref = 3 /\ \A r \in 1 .. 3 : owner[r] = t /\ released[r] = 0
        /\ Cardinality(moved) = 1
        /\ lret[t].op = "set"
        /\ Len(tls_map[t]) = 2 /\ Holes(tls_map[t]) = {}
        /\ tls_map[t][1].ref = 3

----------------------------------------------------------------------------
\* C18: modify(K, f) is f on the result of pop(K), followed by set(K, v) when
\* f returns Some(v).  On the map of every task, in every state: f receives
\* what a get of K would return (None without entry); afterwards a get of K
\* returns what f returned; every other key keeps its data; and the map is
\* the one that pop followed by set (or pop alone) leaves.
C18_TLSModify ==
    \A t \in LocalTasks, k \in UserKeys, f \in ModifyFns, d \in UserData :
        LET m == tls_map[t]
            r == local_modify(m, k, f, d, nref + 1)
            popped == local_get_helper(m, k, TRUE)
            v == modify_fn(f, StoredData(m, k), d)
        IN /\ r.arg.data = StoredData(m, k)
           /\ (local_data_lookup(m, k) = 0) <=> (r.arg = NoEntry)
           /\ StoredData(r.map, k) = v
           /\ \A k2 \in Keys \ {k} : StoredData(r.map, k2) = StoredData(m, k2)
           /\ r.map = IF v # 0
                      THEN local_set(popped.map, [key |-> k, data |-> v, ref |-> nref + 1]).map
                      ELSE popped.map

\* A modify whose function received the stored value and returned None: the
\* key is absent now, and another key still has its entry.
C18_Witness ==
    \E t \in LocalTasks, k \in UserKeys :
        /\ lret[t].op = "modify" /\ lret[t].key = k /\ lret[t].val # NoEntry
        /\ StoredData(tls_map[t], k) = 0
        /\ \E k2 \in UserKeys \ {k} : StoredData(tls_map[t], k2) # 0

----------------------------------------------------------------------------
\* C19: TLS is per task.  Every entry of a task's map, and everything a get,
\* pop or modify handed to a task, was stored by that task; a step changes
\* what the program's keys hold in a task's map only if that task made a
\* call or exited; a task that is spawned starts with all of them absent.
C19_Inv ==
    \A t \in LocalTasks :
        /\ \A r \in MapRefs(tls_map[t]) : owner[r] = t
        /\ lret[t].val.ref # 0 => owner[lret[t].val.ref] = t

C19_Step ==
    \A u \in LocalTasks :
        /\ (\E k \in UserKeys : StoredData(tls_map'[u], k) # StoredData(tls_map[u], k))
              => (lret'[u] # lret[u] \/ lpc'[u] # lpc[u])
        /\ (lpc[u] = "unborn" /\ lpc'[u] = "run")
              => \A k \in UserKeys : StoredData(tls_map'[u], k) = 0

\* C19: TLS is per task (the invariant and the step property above).
C19_TLSPerTask == [](C19_Inv) /\ [][C19_Step]_vars

\* Parent and child hold different data under the same key, and the parent's
\* latest get returned its own.
C19_Witness ==
    \E c \in LocalTasks \ {Root}, k \in UserKeys :
        /\ lpc[c] = "run"
        /\ StoredData(tls_map[Root], k) = 1
        /\ StoredData(tls_map[c], k) = 2
        /\ lret[Root].op = "get" /\ lret[Root].key = k /\ lret[Root].val.data = 1
        /\ lret[c].op = "set" /\ lret[c].key = k
        /\ lret[Root].val.ref < lret[c].put.ref

----------------------------------------------------------------------------
\* C20: TLS cleanup is exactly-once.  A task has one at-exit registration if
\* it ever used task-local data and none otherwise; no reference is dropped
\* by a map twice, and none that a pop handed out is dropped by a map; every
\* reference that left a map otherwise was dropped; and when a task is over,
\* each reference it stored was either handed out by a pop or dropped once.
C20_TLSCleanupOnce ==
    /\ \A t \in LocalTasks : atexit[t] = IF tls_ptr[t] THEN 1 ELSE 0
    /\ \A r \in Refs : released[r] <= 1 /\ (r \in moved => released[r] = 0)
    /\ \A r \in 1 .. nref :
          ((\A t \in LocalTasks : r \notin MapRefs(tls_map[t])) /\ r \notin moved)
              => released[r] = 1
    /\ \A t \in LocalTasks : lpc[t] = "over" =>
          \A r \in 1 .. nref : owner[r] = t =>
              released[r] + (IF r \in moved THEN 1 ELSE 0) = 1

\* A task that failed is over: one of its references was overwritten, one
\* popped, and one was still in the map and was dropped by the cleanup.
C20_Witness ==
    \E t \in LocalTasks :
        /\ lpc[t] = "over" /\ lhow[t] = "failed"
        /\ atexit[t] = 1
        /\ \E a, b, c \in 1 .. nref :
              /\ owner[a] = t /\ owner[b] = t /\ owner[c] = t
              /\ a < b /\ released[a] = 1 /\ released[b] = 1
              /\ c \in moved
----------------------------------------------------------------------------
\* Vocabulary of the guard properties.

\* Inside unkillable, and inside no other guard.
OnlyUnkillable(s) == s # <<>> /\ \A i \in DOMAIN s : s[i].kind = "unkillable"

InAtomically(s) == \E i \in DOMAIN s : s[i].kind = "atomically"

YieldEvent == gev.kind \in {"yield", "block"}

----------------------------------------------------------------------------
\* C21: a kill delivered to a task inside unkillable(f) makes no yield or
\* blocking point inside f fail, also after nested unkillable calls have
\* returned inside it; only f's own failure ends f early; the kill flag stays
\* set; and a yield outside every guard with the kill pending fails the task.
C21_Inv ==
    /\ (YieldEvent /\ OnlyUnkillable(gev.scopes)) => ~gev.failed
    /\ (YieldEvent /\ gev.scopes = <<>> /\ gev.pending) => gev.failed

C21_Step ==
    /\ gkilled => gkilled'
    /\ (gpc = "run" /\ gpc' = "unwind" /\ OnlyUnkillable(gscope)) => gev'.kind = "fail"

\* C21: unkillable defers the kill (the invariant and the step property above).
C21_UnkillableDefersKill == [](C21_Inv) /\ [][C21_Step]_vars

\* The task blocked with the kill pending inside an unkillable in which a
\* nested unkillable had returned, and did not fail.
C21_Witness ==
    /\ gev.kind = "block" /\ gev.pending /\ ~gev.failed
    /\ Len(gev.scopes) = 1
    /\ gev.scopes[1].kind = "unkillable" /\ gev.scopes[1].closed = "unkillable"
    /\ gpc = "run"

----------------------------------------------------------------------------
----------------------------------------------------------------------------
\* C23: yield() with an atomically scope open fails the task, also after a
\* nested atomically has returned; a yield with no atomically scope open and
\* no kill pending does not fail.
C23_YieldInAtomically ==
    /\ (gev.kind = "yield" /\ InAtomically(gev.scopes)) => gev.failed
    /\ (gev.kind = "yield" /\ ~InAtomically(gev.scopes) /\ ~gev.pending) => ~gev.failed

\* No kill was pending when the task yielded in an atomically in which a
\* nested atomically had returned: the task fails.
C23_Witness ==
    /\ gev.kind = "yield" /\ gev.failed /\ ~gev.pending
    /\ Len(gev.scopes) = 1
    /\ gev.scopes[1].kind = "atomically" /\ gev.scopes[1].closed = "atomically"
    /\ gpc = "unwind"

----------------------------------------------------------------------------
\* C25: the spawn window is uncancellable.  A kill pending between new_task
\* and start_task does not make the parent fail there; a child that was
\* created and not started exists only inside the window of a running
\* parent, so every created child is started.
C25_SpawnWindow ==
    /\ gev.kind = "native" => ~gev.failed
    /\ gcreated # gstarted => (gwin = "created" /\ gpc = "run")
    /\ gpc = "done" => gcreated = gstarted

\* The kill was pending when the runtime looked at it between new_task and
\* start_task, and the child has been started.
C25_Witness ==
    /\ gev.kind = "native" /\ gev.pending
    /\ gwin = "started"
    /\ gcreated = 1 /\ gstarted = 1
----------------------------------------------------------------------------
\* C24: the kill broadcast.  When an unwinding task runs kill_taskgroup on
\* its group and the group is not failing yet, that one step (the critical
\* section of the group's lock) clears the slot, sends the kill signal to
\* exactly the members other than the caller and the descendants the group
\* had at that moment, issues the process-wide kill exactly when the caller
\* is_main, and no other group changes in it.
C24_Step ==
    \A t \in Tasks :
        (pc[t] = "td_own" /\ pc'[t] # "td_own" /\ unwinding[t] /\ tg[tasks[t]].some) =>
            LET g == tasks[t]
                targets == (tg[g].members \ {t}) \cup tg[g].descendants
            IN /\ ~tg'[g].some
               /\ sig' \ sig \subseteq {<<t, x>> : x \in targets}
               /\ \A x \in targets : <<t, x>> \in sig' /\ killed'[x]
               /\ <<t, t>> \notin sig'
               /\ killall' = IF is_main[t] THEN killall \cup {t} ELSE killall
               /\ is_main[t] => t \notin killall
               /\ \A h \in Groups \ {g} : tg'[h] = tg[h]

C24_KillBroadcast == [][C24_Step]_vars

\* A task that is not the main task has killed its group: a member and a
\* descendant got its signal, and there was no process-wide kill.
C24_Witness ==
    \E t \in Tasks, m \in Tasks, d \in Tasks :
        /\ <<t, tasks[t]>> \in failedby
        /\ ~is_main[t]
        /\ m # t /\ tasks[m] = tasks[t] /\ <<t, m>> \in sig
        /\ tasks[d] # tasks[t] /\ <<t, d>> \in sig
        /\ killall = {}
----------------------------------------------------------------------------
\* A group or a node that nothing refers to yet.
FreshGroup(g) ==
    /\ tg[g] = NewGroup
    /\ \A x \in Tasks : Born(x) => tasks[x] # g
    /\ \A n \in Tasks \ {NoNode} : node[n] = NewNode \/ node[n].parent_group # g

FreshNode(n) ==
    /\ n # NoNode
    /\ \A x \in Tasks : Born(x) => anc[x] # n
    /\ \A m \in Tasks \ {NoNode} : node[m].ancestors # n

\* C26: cohort derivation.  A child spawned linked (whatever supervised is)
\* gets the spawner's group, the spawner's ancestor list and the spawner's
\* is_main.  A child spawned unlinked and supervised gets a fresh empty
\* group, a fresh head node whose parent_group is the spawner's group and
\* whose tail is the spawner's list, and is_main false.  A child spawned
\* with both false gets a fresh empty group, the empty list and is_main false.
C26_Step ==
    \A c \in Tasks :
        (pc[c] = "unborn" /\ pc'[c] = "start") =>
            LET p == parent'[c]
                o == opts'[c]
            IN IF o.linked
               THEN /\ tasks'[c] = tasks[p]
                    /\ anc'[c] = anc[p]
                    /\ is_main'[c] = is_main'[p]
                    /\ node' = node
               ELSE /\ tasks'[c] = c
                    /\ FreshGroup(c)
                    /\ tg'[c] = NewGroup
                    /\ ~is_main'[c]
                    /\ IF o.supervised
                       THEN /\ anc'[c] = c
                            /\ FreshNode(c)
                            /\ node'[c].parent_group = tasks[p]
                            /\ node'[c].ancestors = anc[p]
                       ELSE anc'[c] = NoNode /\ node' = node

C26_CohortDerivation == [][C26_Step]_vars

\* A child spawned linked and supervised by a supervised task: it is in its
\* spawner's group and has its spawner's list, which is not empty.
C26_Witness ==
    \E c \in Tasks :
        /\ Spawned(c) /\ pc[c] = "start"
        /\ opts[c].linked /\ opts[c].supervised
        /\ SupervisedChild(parent[c])
        /\ tasks[c] = tasks[parent[c]]
        /\ anc[c] = anc[parent[c]] /\ anc[c] # NoNode
        /\ ~is_main[c]
----------------------------------------------------------------------------
\* Vocabulary of the walk properties.

\* forward_blk returned false at some node of the walk.
Broke(w) == \E i \in DOMAIN w.vis : w.vis[i].fwd = "false"

\* The group of a visited node was dead at the visit.
DeadAt(v) == v.some /\ v.empty

SeqRange(q) == {q[i] : i \in DOMAIN q}

\* The nodes of a walk that were not dead at the visit, in visiting order.
KeptNodes(w) ==
    LET live == SelectSeq(w.vis, LAMBDA v : ~DeadAt(v))
    IN [i \in 1 .. Len(live) |-> live[i].n]

----------------------------------------------------------------------------
\* C27: the walk is transactional.  bail_blk is called at most once on a
\* node, only on nodes forward_blk ran on and returned true, and only when
\* forward_blk returned false at some node; when each_ancestor has returned
\* after such a break, bail_blk was called on every node forward_blk had
\* returned true on; each_ancestor returns false exactly when forward_blk
\* returned false at some node.
C27_TransactionalWalk ==
    \A t \in Tasks :
        LET w == wlog[t]
            trues == {w.vis[k].n : k \in {k \in DOMAIN w.vis : w.vis[k].fwd = "true"}}
        IN /\ \A i, j \in DOMAIN w.bail : i # j => w.bail[i] # w.bail[j]
           /\ SeqRange(w.bail) \subseteq trues
           /\ w.bail # <<>> => Broke(w)
           /\ w.ret # "none" =>
                 /\ (w.ret = "false") <=> Broke(w)
                 /\ Broke(w) => SeqRange(w.bail) = trues

\* An enlistment walk has returned false: forward_blk returned true on the
\* first node and false on the second, and bail_blk ran on the first.
C27_Witness ==
    \E t \in Tasks :
        LET w == wlog[t]
        IN /\ w.ret = "false"
           /\ Len(w.vis) = 2
           /\ w.vis[1].fwd = "true" /\ w.vis[2].fwd = "false"
           /\ w.bail = <<w.vis[1].n>>

----------------------------------------------------------------------------
\* C28 (as claimed): dead nodes are coalesced away and nothing else is lost.
\* When each_ancestor has returned, the list it was called on starts with the
\* visited nodes whose group was not dead at the visit (state present,
\* members empty), in visiting order, and is exactly that when the walk
\* reached the end of the list; no node that was dead at the visit is left in
\* it; and a node whose group was failing at the visit is still in it.
C28_Claimed ==
    \A t \in Tasks :
        LET w == wlog[t]
            kept == KeptNodes(w)
        IN w.ret # "none" =>
              /\ Len(w.after) >= Len(kept)
              /\ SubSeq(w.after, 1, Len(kept)) = kept
              /\ ~Broke(w) => w.after = kept
              /\ \A i \in DOMAIN w.vis :
                    /\ DeadAt(w.vis[i]) => w.vis[i].n \notin SeqRange(w.after)
                    /\ ~w.vis[i].some => w.vis[i].n \in SeqRange(w.after)

----------------------------------------------------------------------------
\* C29: generations are monotonic.  In every reachable state the generation
\* of a node is greater than the generation of the node its ancestors field
\* leads to, so the generation decreases from head to tail along every list,
\* and the assertion last_generation > nobe.generation of iterate has never
\* failed.
C29_GenerationMonotonic ==
    /\ \A n \in Tasks \ {NoNode} :
          node[n].ancestors # NoNode =>
              node[n].generation > node[node[n].ancestors].generation
    /\ "generation" \notin fault

\* A walk went through three nodes, the assertion passing at each, and a
\* list that a dead node was coalesced out of leads from generation 2 to
\* generation 0.
C29_Witness ==
    /\ \E t \in Tasks : Len(wlog[t].vis) = 3 /\ wlog[t].ret # "none"
    /\ \E n \in Tasks \ {NoNode} :
          /\ node[n].generation = 2
          /\ node[n].ancestors # NoNode
          /\ node[node[n].ancestors].generation = 0

----------------------------------------------------------------------------
\* The taskgroup locks a task holds.
HeldGroups(t) == {g \in LockGroups : group_lock[g] = t}

\* C30: in every reachable state no task holds the locks of two taskgroups:
\* in spawn, enlistment, the walks, bail and teardown a taskgroup's lock is
\* released before another one is acquired.
C30_OneGroupLock ==
    \A t \in LockTasks : Cardinality(HeldGroups(t)) <= 1

\* A task holds the lock of a node's parent group for bail_blk, after its
\* walk went on to the next node and came back, while another task holds
\* the lock of another group.
C30_Witness ==
    \E t \in LockTasks, u \in LockTasks :
        /\ t # u
        /\ kpc[t] = "walk"
        /\ kstk[t][Len(kstk[t])].phase = "bail_in"
        /\ HeldGroups(t) = {parent_group_of(kstk[t][Len(kstk[t])].n)}
        /\ HeldGroups(u) # {}

----------------------------------------------------------------------------
\* The ancestor node locks a task holds.
HeldNodes(t) == {n \in LockNodes : node_lock[n] = t}

\* C31 (as claimed): while a task walks an ancestor list it holds the lock
\* of at most one ancestor node at any moment: the lock of a node is
\* released before the lock of that node's tail is acquired.
C31_Claimed ==
    \A t \in LockTasks : Cardinality(HeldNodes(t)) <= 1

\* The nodes of the frames of a task's walk that are inside the closure of
\* access_ancestors.
EnteredNodes(t) ==
    {kstk[t][i].n : i \in {j \in DOMAIN kstk[t] : kstk[t][j].phase # "lock"}}

\* C31 (amended): a walker holds the locks of all the nodes between the head
\* of its list and the node it is at.  In every reachable state the node
\* locks a walking task holds are exactly those of its frames that entered
\* access_ancestors; every frame but the innermost waits in the recursive
\* call for the frame of its node's tail; a task in gen_child_taskgroup
\* holds at most the lock of the first node of its list, and any other task
\* holds none.
C31_NestedNodeLocks ==
    \A t \in LockTasks :
        /\ kpc[t] = "walk" =>
              /\ HeldNodes(t) = EnteredNodes(t)
              /\ \A i \in 2 .. Len(kstk[t]) :
                    /\ kstk[t][i - 1].phase = "rec"
                    /\ kstk[t][i].n = tail_of(kstk[t][i - 1].n)
        /\ kpc[t] = "gen_in" => HeldNodes(t) = {list_of(kown[t])}
        /\ kpc[t] \notin {"walk", "gen_in"} => HeldNodes(t) = {}

\* A walker has taken the lock of the tail of a node whose lock it still
\* holds.
C31_Witness ==
    \E t \in LockTasks :
        /\ kpc[t] = "walk"
        /\ Len(kstk[t]) = 2
        /\ kstk[t][2].phase = "group"
        /\ HeldNodes(t) = {kstk[t][1].n, kstk[t][2].n}
        /\ Cardinality(HeldNodes(t)) = 2

----------------------------------------------------------------------------
\* The task that holds the lock a task is about to take (Free: the lock is
\* free, or the task's next step takes no lock).
WaitsFor(t) ==
    CASE kpc[t] = "gen" -> node_lock[list_of(kown[t])]
      [] kpc[t] \in {"own", "enl_leave"} -> group_lock[kown[t]]
      [] kpc[t] = "walk" ->
            LET f == kstk[t][Len(kstk[t])]
            IN CASE f.phase = "lock" -> node_lock[f.n]
                 [] f.phase \in {"group", "bail"} -> group_lock[parent_group_of(f.n)]
                 [] OTHER -> Free
      [] OTHER -> Free

\* The task reached from t over k waits.
RECURSIVE Waited(_, _)
Waited(t, k) ==
    IF k = 0 THEN t
    ELSE LET u == Waited(t, k - 1)
         IN IF u = Free THEN Free ELSE WaitsFor(u)

\* t is on a cycle of tasks each waiting for a lock held by the next.
InWaitCycle(t) == \E k \in 1 .. MaxLockTasks : Waited(t, k) = t

----------------------------------------------------------------------------
\* C33 (as claimed): no kill signal reaches a finished task.  Every task
\* that kill_taskgroup signals from the members or descendants of a group
\* has not completed its teardown.
C33_Claimed == freed = {}

----------------------------------------------------------------------------
\* The group has had a member and has none now, its state being present.
DeadGroup(g) ==
    /\ tg[g].some
    /\ taskgroup_is_dead(tg[g])
    /\ \E x \in Tasks :
          /\ tasks[x] = g
          /\ IF x = Root THEN has_tcb[x] ELSE pc[x] \notin {"unborn", "start"}

\* C34 (as claimed): dead is permanent.  Once the members set of a taskgroup
\* has become empty while its state is present, no step enlists a task as a
\* member of it and no kill_taskgroup runs over it, so that a task left in
\* its descendants by a skipped leave is never signalled from it.
C34_Step ==
    \A g \in Groups :
        DeadGroup(g) =>
            /\ tg'[g].members = {}
            /\ tg'[g].some
            /\ \A t \in Tasks, x \in tg[g].descendants :
                  tasks[t] = g => <<t, x>> \notin (sig' \ sig)

C34_Claimed == [][C34_Step]_vars

----------------------------------------------------------------------------
\* C35: in every reachable state the members and the descendants of every
\* taskgroup are disjoint, no task is a descendant of its own taskgroup, and
\* neither the no-overwrite assertion of taskset_insert nor the assertion
\* child != me of kill_taskgroup has failed: no enlistment found the task
\* in the set it inserts into, and no task killed a group it is a
\* descendant of.
C35_SetsDisjoint ==
    /\ \A g \in Groups : tg[g].members \cap tg[g].descendants = {}
    /\ \A t \in Tasks : Born(t) => t \notin tg[tasks[t]].descendants
    /\ "taskset_insert" \notin fault
    /\ "kill_child_is_me" \notin fault

\* A task that is a descendant of a group with another member has killed
\* its own group, which had a descendant.
C35_Witness ==
    \E t \in Tasks, g \in Groups, x \in Tasks, d \in Tasks :
        /\ x # t /\ d # t
        /\ g # tasks[t]
        /\ t \in tg[g].descendants
        /\ x \in tg[g].members
        /\ unwinding[t]
        /\ ~tg[tasks[t]].some
        /\ <<t, d>> \in sig
        /\ tasks[d] # tasks[t]

----------------------------------------------------------------------------
\* The set of a group that is_member selects.
SetOf(state, is_member) == IF is_member THEN state.members ELSE state.descendants

\* C36 (as claimed): leave_taskgroup on a taskgroup that is not failing and
\* whose selected set does not contain the task does not fail: it returns
\* and leaves both sets of the group as they are.
C36_ClaimedStep ==
    \A t \in Tasks, is_member \in BOOLEAN :
        ( /\ SetsLeave(t, is_member)
          /\ tg[Root].some
          /\ t \notin SetOf(tg[Root], is_member) )
        => (tg' = tg /\ fault' = fault)

C36_Step ==
    \A t \in Tasks, is_member \in BOOLEAN :
        SetsLeave(t, is_member) =>
            LET st == tg[Root]
            IN IF ~st.some
               THEN tg' = tg /\ fault' = fault
               ELSE IF t \in SetOf(st, is_member)
               THEN /\ tg'[Root].some
                    /\ SetOf(tg'[Root], is_member) = SetOf(st, is_member) \ {t}
                    /\ SetOf(tg'[Root], ~is_member) = SetOf(st, ~is_member)
                    /\ fault' = fault
               ELSE "taskset_remove" \in fault'

----------------------------------------------------------------------------
\* C37: teardown never fails.  In every reachable state no assertion has
\* failed: every leave_taskgroup of a teardown or a bail (on the own group
\* as member, on the ancestor groups that are neither dead nor failing as
\* descendant) has found the task in the set it removes it from, and the
\* assertions of kill_taskgroup and of iterate on the teardown path held.
C37_TeardownNeverFails == fault = {}

\* A task that returned has left its own group and then, in the walk of its
\* teardown, a group it was a descendant of, and has skipped a dead group,
\* while another task failed.
C37_Witness ==
    \E t \in Tasks, u \in Tasks :
        /\ pc[t] \in {"notify", "done"}
        /\ ran[t] /\ ~unwinding[t]
        /\ wlog[t].ret = "true"
        /\ Len(wlog[t].vis) = 2
        /\ wlog[t].vis[1].fwd = "true"
        /\ wlog[t].vis[2].fwd = "skipped"
        /\ u # t /\ unwinding[u]

----------------------------------------------------------------------------
\* The tasks whose kill_taskgroup found the group in the slot of g.
Broadcasters(g) == {t \in Tasks : <<t, g>> \in failedby}

C38_Inv ==
    /\ \A g \in Groups : Cardinality(Broadcasters(g)) <= 1
    /\ Cardinality(killall) <= 1

C38_Step ==
    \A t \in Tasks :
        ( /\ pc[t] = "td_own" /\ pc'[t] # "td_own"
          /\ unwinding[t]
          /\ ~tg[tasks[t]].some )
        => /\ sig' = sig
           /\ killed' = killed
           /\ killall' = killall
           /\ allsig' = allsig

\* C38: at most one broadcast per group.  Of the members of a taskgroup that
\* fail, one finds the group in the slot and does the kill broadcast; every
\* other one finds the slot cleared and sends no signal and no kill-all; and
\* rust_task_kill_all is called at most once in an execution.
C38_OneBroadcast == [](C38_Inv) /\ [][C38_Step]_vars

\* Two tasks of the main task's group have failed and are past
\* kill_taskgroup: one did the broadcast and the kill-all, the other sent
\* nothing.
C38_Witness ==
    \E t \in Tasks, u \in Tasks :
        /\ t # u
        /\ tasks[t] = tasks[u]
        /\ is_main[t] /\ is_main[u]
        /\ unwinding[t] /\ unwinding[u]
        /\ pc[t] \in {"td_walk", "notify", "done"}
        /\ pc[u] \in {"td_walk", "notify", "done"}
        /\ Broadcasters(tasks[t]) = {t}
        /\ killall = {t}
        /\ \A x \in Tasks : <<u, x>> \notin sig /\ <<u, x>> \notin allsig

----------------------------------------------------------------------------
\* The destructor of the TCB starts when the body of a task that has a TCB
\* is over, and a task is over only after it, or without a TCB.
C39_Once ==
    \A t \in Tasks :
        /\ (pc'[t] = "td_own" /\ pc[t] # "td_own") =>
              pc[t] = "run" /\ ran[t] /\ has_tcb[t] /\ t \notin enlfail
        /\ (pc'[t] = "td_walk" /\ pc[t] # "td_walk") => pc[t] = "td_own"
        /\ (pc'[t] = "notify" /\ pc[t] # "notify") =>
              \/ pc[t] \in {"td_own", "td_walk"}
              \/ ~has_tcb[t] /\ t \in enlfail'
        /\ (pc'[t] = "done" /\ pc[t] # "done") =>
              \/ pc[t] = "notify"
              \/ pc[t] = "run" /\ ~has_tcb[t]
        /\ pc[t] = "done" => pc'[t] = "done"

\* The first half: kill the own group when unwinding, leave it otherwise.
C39_Own ==
    \A t \in Tasks :
        (pc[t] = "td_own" /\ pc'[t] # "td_own") =>
            LET g == tasks[t]
            IN /\ IF unwinding[t]
                  THEN /\ ~tg'[g].some
                       /\ opts[t].notify => nfailed'[t]
                  ELSE /\ tg'[g].some = tg[g].some
                       /\ tg'[g].members = tg[g].members \ {t}
                       /\ tg'[g].descendants = tg[g].descendants
                       /\ nfailed'[t] = nfailed[t]
                       /\ sig' = sig
               /\ \A h \in Groups \ {g} : tg'[h] = tg[h]
               /\ pc'[t] = IF anc[t] = NoNode THEN "notify" ELSE "td_walk"

\* The second half: one walk that leaves as descendant and never bails.
C39_Walk ==
    \A t \in Tasks :
        (pc[t] = "td_walk" /\ (wstk'[t] # wstk[t] \/ pc'[t] # "td_walk")) =>
            /\ pc'[t] \in {"td_walk", "notify"}
            /\ wlog'[t].bail = <<>>
            /\ \A i \in DOMAIN wlog'[t].vis : wlog'[t].vis[i].fwd \in {"true", "skipped"}
            /\ \A g \in Groups :
                  /\ tg'[g].some = tg[g].some
                  /\ tg'[g].members = tg[g].members
                  /\ tg'[g].descendants \in {tg[g].descendants, tg[g].descendants \ {t}}
            /\ sig' = sig

\* A task one of whose enlistments failed has no TCB, never ran its body and
\* is not in a teardown.
C39_Inv ==
    \A t \in enlfail :
        ~has_tcb[t] /\ ~ran[t] /\ pc[t] \notin {"run", "td_own", "td_walk"}

\* C39: teardown runs exactly once per enlisted task, after its body
\* returned or failed.  An unwinding task marks its notifier failed and
\* kills its own taskgroup, any other leaves its own taskgroup as member;
\* then the task walks its ancestor list once, leaving as descendant and
\* with no bail; a task whose enlistment failed builds no TCB and runs no
\* teardown.
C39_TeardownOnce ==
    /\ [](C39_Inv)
    /\ [][C39_Once /\ C39_Own /\ C39_Walk]_vars

\* Three tasks are over: one failed and killed its group, one returned and
\* left its group, and one could not enlist and never ran.
C39_Witness ==
    \E t \in Tasks, u \in Tasks, v \in Tasks :
        /\ pc[t] = "done" /\ pc[u] = "done" /\ pc[v] = "done"
        /\ ran[t] /\ has_tcb[t] /\ unwinding[t] /\ \E g \in Groups : <<t, g>> \in failedby
        /\ ran[u] /\ has_tcb[u] /\ ~unwinding[u]
        /\ v \in enlfail /\ ~ran[v]

----------------------------------------------------------------------------
\* C40 (as claimed): at the exit of a spawned task every task-local entry
\* its body has set is released before its notifier sends the Exit message:
\* when the TCB, which holds the notifier, is dropped, the task's map holds
\* no other entry any more.
C40_Claimed ==
    \A t \in LocalTasks \ {Root} :
        tcb_drop[t].done => tcb_drop[t].held = {}
====
